---- MODULE Spec2Model ----
(***************************************************************************)
(* State-machine model of CSMShadowGenerator (src/src/MainGUI.tsx).        *)
(*                                                                         *)
(* JavaScript numbers that take part in the split arithmetic are modelled  *)
(* as exact rationals [n |-> numerator, d |-> denominator] in lowest terms *)
(* with d > 0, so that equality of values is equality of records.          *)
(* IEEE-754 rounding is not modelled.                                      *)
(***************************************************************************)
EXTENDS Integers, Sequences, FiniteSets, Bags, TLC

VARIABLES
    numCascades,        \* this._numCascades
    cascades,           \* this._cascades: sequence of ICascade (index i+1 is cascade i)
    activeCascade,      \* this._activeCascade
    lambda,             \* this._lambda
    minDistance,        \* this._minDistance
    maxDistance,        \* this._maxDistance
    activeCamera,       \* this._scene.activeCamera
    renderList,         \* this._renderList
    freeze,             \* this._freezeShadowCastersBoundingInfo
    freezeObservable,   \* this._freezeShadowCastersBoundingInfoObservable !== null
    sceneHooks,         \* observers of this generator in scene.onBeforeRenderObservable
    boundingInfo,       \* this._shadowCastersBoundingInfo
    meshBounds,         \* for each mesh, getBoundingInfo().boundingBox world extents
    frozen,             \* history: what the last freeze assignment captured
    lastOp,             \* history: the operation that produced this state
    renderListId,       \* the identity of the array this._renderList refers to
    light,              \* this._light: its kind, shadowEnabled and needCube()
    shadowsEnabled,     \* this._scene.shadowsEnabled
    debug,              \* this._debug
    rendererDisposed,   \* for each cascade renderer, the dispose() calls it received
    defines,            \* the MaterialDefines table handed to prepareDefines
    lightMatrices,      \* this._lightMatrices
    cascadeDepths,      \* this._cascadeDepths
    samplers,           \* this._samplers
    bindWrites,         \* the writes the last bindShadowLight made to effect and light
    rendererCalls,      \* history: the calls the last operation made to cascade renderers, in order
    readyResult,        \* what the last isReady call returned
    sourceTexture,      \* MinMaxReducer._sourceTexture (NoTexture: null/undefined)
    reductionSteps,     \* MinMaxReducer._reductionSteps (<<>>: null)
    unbindObserver,     \* MinMaxReducer._onAfterUnbindObserver is set
    activated,          \* MinMaxReducer._activated
    textures,           \* the render target textures a source can be
    reductionObservers, \* observers of onAfterReductionPerformed
    img,                \* createTextureFromImage: the decoded image and its getImageData() bytes
    upload,             \* createTextureFromImage: what the last call handed to the queue
    rendered            \* history: what the last render of a texture caused

\* The history of the calls made to the cascade renderers.
rendererVars == <<rendererDisposed, rendererCalls>>

\* The generator's state of the light-binding operations.
bindVars == <<light, shadowsEnabled, debug, defines, lightMatrices, cascadeDepths,
              samplers, bindWrites, readyResult>>

\* The MinMaxReducer's state.
reducerVars == <<sourceTexture, reductionSteps, unbindObserver, activated, textures,
                 reductionObservers, rendered>>

\* The state of the texture helper createTextureFromImage.
helperVars == <<img, upload>>

vars == <<numCascades, cascades, activeCascade, lambda, minDistance, maxDistance,
          activeCamera, renderList, freeze, freezeObservable, sceneHooks,
          boundingInfo, meshBounds, frozen, lastOp, renderListId, rendererVars, bindVars,
          reducerVars, helperVars>>

----------------------------------------------------------------------------
(* Exact rational arithmetic standing for JavaScript number arithmetic.    *)

Abs(x) == IF x < 0 THEN -x ELSE x

RECURSIVE GCD(_, _)
GCD(a, b) == IF b = 0 THEN a ELSE GCD(b, a % b)

\* n/d in lowest terms with a positive denominator (d # 0).
Rat(n, d) ==
    LET g == GCD(Abs(n), Abs(d))
        s == IF d < 0 THEN -1 ELSE 1
    IN  [n |-> (s * n) \div g, d |-> (s * d) \div g]

Zero == Rat(0, 1)
One == Rat(1, 1)

RAdd(a, b) == Rat(a.n * b.d + b.n * a.d, a.d * b.d)
RSub(a, b) == Rat(a.n * b.d - b.n * a.d, a.d * b.d)
RMul(a, b) == Rat(a.n * b.n, a.d * b.d)
\* a / b for b # 0 (the inputs of the model never divide by zero).
RDiv(a, b) == Rat(a.n * b.d, a.d * b.n)
RLe(a, b) == a.n * b.d <= b.n * a.d
RLt(a, b) == a.n * b.d < b.n * a.d

RECURSIVE IPow(_, _)
IPow(x, k) == IF k = 0 THEN 1 ELSE x * IPow(x, k - 1)

\* The largest m with m^N * b <= a (a >= 0, b >= 1): floor of the N-th root of a/b.
RECURSIVE FloorRootFrom(_, _, _, _)
FloorRootFrom(m, a, b, N) ==
    IF IPow(m + 1, N) * b > a THEN m ELSE FloorRootFrom(m + 1, a, b, N)

FloorRoot(a, b, N) == FloorRootFrom(0, a, b, N)

\* ratio ** (k / N) for a positive rational ratio and 1 <= k <= N: the exact value
\* when it is rational (ratio^k is the N-th power of a rational), otherwise the
\* real value rounded down to an integer.
Pow(ratio, k, N) ==
    LET a == IPow(ratio.n, k)
        b == IPow(ratio.d, k)
        ra == FloorRoot(a, 1, N)
        rb == FloorRoot(b, 1, N)
    IN  IF IPow(ra, N) = a /\ IPow(rb, N) = b
        THEN Rat(ra, rb)
        ELSE Rat(FloorRoot(a, b, N), 1)

----------------------------------------------------------------------------
(* Program constants and the input sets the operations draw from.          *)

CASCADE_ALL == -1

\* Values assigned to lambda (the constructor's 0.7 among them).
Lambdas == {Zero, Rat(7, 10), One}

\* Values assigned to minDistance and maxDistance.
Distances == {Zero, Rat(1, 5), One}

NoCamera == [present |-> FALSE, minZ |-> Zero, maxZ |-> Zero]

Camera(near, far) == [present |-> TRUE, minZ |-> Rat(near, 1), maxZ |-> Rat(far, 1)]

\* The scene's active camera: none, or one with 0 < minZ < maxZ.
Cameras == {NoCamera, Camera(1, 16), Camera(1, 101)}

\* numCascades arguments given to the constructor.
NumCascadesArgs == {0, 1, 2, 4}

\* The scene's meshes and their child nodes (m3 is a child of m2, m2 of m1).
Meshes == {"m1", "m2", "m3"}

\* mesh.getChildren(): the direct children.
getChildren(mesh) ==
    CASE mesh = "m1" -> <<"m2">>
      [] mesh = "m2" -> <<"m3">>
      [] OTHER -> <<>>

\* mesh.getChildMeshes(): every descendant mesh.
getChildMeshes(mesh) ==
    CASE mesh = "m1" -> <<"m2", "m3">>
      [] mesh = "m2" -> <<"m3">>
      [] OTHER -> <<>>

Vector3(x, y, z) == [x |-> Rat(x, 1), y |-> Rat(y, 1), z |-> Rat(z, 1)]

\* World-space boxes a mesh can occupy: one with every coordinate negative, one
\* with every coordinate positive.
NegBox == [minimumWorld |-> Vector3(-3, -2, -4), maximumWorld |-> Vector3(-1, -1, -2)]
PosBox == [minimumWorld |-> Vector3(1, 2, 1), maximumWorld |-> Vector3(3, 4, 2)]
Boxes == {NegBox, PosBox}

\* Number.MAX_VALUE: larger than every coordinate of the model.
NUMBER_MAX_VALUE == Rat(1000000, 1)
\* Number.MIN_VALUE: the smallest POSITIVE number, below every positive coordinate.
NUMBER_MIN_VALUE == Rat(1, 1000000)

\* Values a caller assigns to shadowCastersBoundingInfo.
BoundingInfo(min, max) == [minimum |-> min, maximum |-> max]
AssignedInfos == {BoundingInfo(Vector3(-9, -9, -9), Vector3(9, 9, 9))}

\* Bounds on the model.
MaxCasters == 3

----------------------------------------------------------------------------
(* setDistanceSplit                                                        *)

\* Faulty variant: the blend taken as lambda * (uniform - log) + uniform.
SplitBlend_SignFlipped(lam, log, uniform) == RAdd(RMul(lam, RSub(uniform, log)), uniform)
\* d = lambda * (log - uniform) + uniform
SplitBlend(lam, log, uniform) == RAdd(RMul(lam, RSub(log, uniform)), uniform)

\* Faulty variant: the uniform depth without its minZ offset.
UniformSplit_NoOffset(minZ, range, p) == RMul(range, p)
\* uniform = minZ + range * p
UniformSplit(minZ, range, p) == RAdd(minZ, RMul(range, p))

\* splitDistance of the cascade with 1-based position i (cascadeIndex = i - 1).
SplitOf(i, lam, minD, maxD, cam, nCasc) ==
    LET near == cam.minZ
        far == cam.maxZ
        cameraRange == RSub(far, near)
        minZ == RAdd(near, RMul(minD, cameraRange))
        maxZ == RAdd(near, RMul(maxD, cameraRange))
        range == RSub(maxZ, minZ)
        ratio == RDiv(maxZ, minZ)
        p == Rat(i, nCasc)
        log == RMul(minZ, Pow(ratio, i, nCasc))
        uniform == UniformSplit(minZ, range, p)
        d == SplitBlend(lam, log, uniform)
    IN  RDiv(RSub(d, near), cameraRange)

\* prevSplitDistance of the cascade at position i: minDistance for cascade 0, else
\* the splitDistance just stored in the cascade before it.
PrevSplit(i, minD, cascs) == IF i = 1 THEN minD ELSE cascs[i - 1].splitDistance

RECURSIVE SplitLoop(_, _, _, _, _, _, _)
\* Faulty variant: every prevSplitDistance read from the list as it was before the
\* loop started.
SplitLoop_StalePrev(cascs, i, lam, minD, maxD, cam, nCasc) ==
    [j \in 1..Len(cascs) |->
        [cascs[j] EXCEPT
            !.prevSplitDistance = PrevSplit(j, minD, cascs),
            !.splitDistance = SplitOf(j, lam, minD, maxD, cam, nCasc)]]
\* The loop over the cascades from position i on.
SplitLoop(cascs, i, lam, minD, maxD, cam, nCasc) ==
    IF i > Len(cascs)
    THEN cascs
    ELSE SplitLoop(
            [cascs EXCEPT ![i] =
                [@ EXCEPT !.prevSplitDistance = PrevSplit(i, minD, cascs),
                          !.splitDistance = SplitOf(i, lam, minD, maxD, cam, nCasc)]],
            i + 1, lam, minD, maxD, cam, nCasc)

DistanceSplit_NoCameraZeroes(cascs, lam, minD, maxD, cam, nCasc) ==
    IF ~cam.present
    THEN [i \in DOMAIN cascs |->
            [cascs[i] EXCEPT !.prevSplitDistance = Zero, !.splitDistance = Zero]]
    ELSE SplitLoop(cascs, 1, lam, minD, maxD, cam, nCasc)

\* The cascade list setDistanceSplit leaves (unchanged without an active camera).
DistanceSplit(cascs, lam, minD, maxD, cam, nCasc) ==
    IF ~cam.present THEN cascs ELSE SplitLoop(cascs, 1, lam, minD, maxD, cam, nCasc)

----------------------------------------------------------------------------
(* addShadowCaster / removeShadowCaster / mustRender                       *)

addShadowCaster(list, mesh, includeDescendants) ==
    list \o <<mesh>> \o (IF includeDescendants THEN getChildMeshes(mesh) ELSE <<>>)

\* list.indexOf(mesh): the first position holding mesh, 0 when absent.
IndexOf(list, mesh) ==
    IF \E i \in 1..Len(list) : list[i] = mesh
    THEN CHOOSE i \in 1..Len(list) :
            list[i] = mesh /\ \A j \in 1..(i - 1) : list[j] # mesh
    ELSE 0

\* list.splice(index, 1)
Splice(list, index) ==
    [i \in 1..(Len(list) - 1) |-> IF i < index THEN list[i] ELSE list[i + 1]]

\* Faulty variant: every entry equal to mesh removed.
RemoveFirst_All(list, mesh) == SelectSeq(list, LAMBDA m : m # mesh)
\* const index = indexOf(mesh); if (index !== -1) splice(index, 1)
RemoveFirst(list, mesh) ==
    IF IndexOf(list, mesh) # 0 THEN Splice(list, IndexOf(list, mesh)) ELSE list

RECURSIVE removeShadowCaster(_, _, _)
RECURSIVE RemoveChildren(_, _)
\* for (let child of children) this.removeShadowCaster(child)
RemoveChildren(list, children) ==
    IF children = <<>>
    THEN list
    ELSE RemoveChildren(removeShadowCaster(list, Head(children), TRUE), Tail(children))

removeShadowCaster(list, mesh, includeDescendants) ==
    LET removed == RemoveFirst(list, mesh)
    IN  IF includeDescendants
        THEN RemoveChildren(removed, getChildren(mesh))
        ELSE removed

mustRender == Len(renderList) > 0

----------------------------------------------------------------------------
(* _computeShadowCastersBoundingInfo                                       *)

RMin(a, b) == IF RLe(a, b) THEN a ELSE b
RMax(a, b) == IF RLe(a, b) THEN b ELSE a

\* Vector3.minimizeInPlace / maximizeInPlace
minimizeInPlace(v, other) ==
    [x |-> RMin(v.x, other.x), y |-> RMin(v.y, other.y), z |-> RMin(v.z, other.z)]
maximizeInPlace(v, other) ==
    [x |-> RMax(v.x, other.x), y |-> RMax(v.y, other.y), z |-> RMax(v.z, other.z)]

InitialMin == [x |-> NUMBER_MAX_VALUE, y |-> NUMBER_MAX_VALUE, z |-> NUMBER_MAX_VALUE]
InitialMax == [x |-> NUMBER_MIN_VALUE, y |-> NUMBER_MIN_VALUE, z |-> NUMBER_MIN_VALUE]

RECURSIVE AccumulateBounds(_, _, _, _)
\* The loop over the render list from position meshIndex on.
AccumulateBounds(list, bounds, meshIndex, acc) ==
    IF meshIndex > Len(list)
    THEN acc
    ELSE AccumulateBounds(list, bounds, meshIndex + 1,
            BoundingInfo(minimizeInPlace(acc.minimum, bounds[list[meshIndex]].minimumWorld),
                         maximizeInPlace(acc.maximum, bounds[list[meshIndex]].maximumWorld)))

computeShadowCastersBoundingInfo(list, bounds) ==
    AccumulateBounds(list, bounds, 1, BoundingInfo(InitialMin, InitialMax))

----------------------------------------------------------------------------
(* The state after construction                                            *)

\* A record of the operation just performed (the fields an operation does not
\* use keep these defaults).
Op(name) == [op |-> name, index |-> 0, mesh |-> "", incl |-> FALSE,
             before |-> <<>>, undoes |-> FALSE, property |-> "", value |-> 0]

NotFrozen == [active |-> FALSE, nonEmpty |-> FALSE,
              info |-> BoundingInfo(Vector3(0, 0, 0), Vector3(0, 0, 0)),
              casters |-> BoundingInfo(Vector3(0, 0, 0), Vector3(0, 0, 0))]

CoerceNumCascades_None(n) == n

\* if (numCascades < 1) numCascades = 1
CoerceNumCascades(n) == IF n < 1 THEN 1 ELSE n

\* The lights a generator can be given: the constructor only logs an error for a
\* light that is not directional. needCube() is true of a point light.
DirectionalLight == [directional |-> TRUE, shadowEnabled |-> TRUE, needCube |-> FALSE]
PointLight == [directional |-> FALSE, shadowEnabled |-> TRUE, needCube |-> TRUE]

\* ShadowGenerator.FILTER_NONE, FILTER_PCF and FILTER_PCSS.
FILTER_NONE == 0
FILTER_PCF == 6
FILTER_PCSS == 7
Filters == {FILTER_NONE, FILTER_PCF, FILTER_PCSS}

\* The array the constructor creates (this._renderList = []).
FirstArray == 1

\* new CSMShadowMap(...): the renderer of cascade `id`. `frame` numbers the
\* matrices it last computed, `shadowMap` tells whether its map is allocated,
\* `renderList` is the array _initializeCSM assigns to generator.renderList
\* (the one the constructor created).
NewGenerator(id) == [id |-> id, bias |-> 0, filter |-> FILTER_NONE,
                     useKernelBlur |-> FALSE, ready |-> TRUE, shadowMap |-> TRUE,
                     frame |-> 0, renderList |-> FirstArray]

\* _initializeCSM: numCascades cascades with both distances 0.
NewCascades(n) == [i \in 1..n |-> [generator |-> NewGenerator(i),
                                   prevSplitDistance |-> Zero, splitDistance |-> Zero]]

\* One element of a Float32Array of matrices: element k of a matrix, or the 0
\* the array is created with.
ZeroElement == [gen |-> 0, frame |-> 0, k |-> 0]

\* new Float32Array(numCascades * 16)
NewLightMatrices(n) == [k \in 0..(16 * n - 1) |-> ZeroElement]

\* An array slot nothing was stored in (new Array(numCascades)).
Empty == [kind |-> "empty", id |-> 0]
NewArray(n) == [k \in 0..(n - 1) |-> Empty]

\* The render target textures a reducer can be given as source.
TextureIds == {"texA", "texB"}
NoTexture == "none"

\* The sizes of the textures given as source.
SourceSizes == {<<1, 1>>, <<1, 3>>, <<4, 4>>, <<5, 2>>}
NewTexture(w, h) == [width |-> w, height |-> h, refreshRate |-> 1, observers |-> 0]
NothingRendered == [texture |-> NoTexture, steps |-> <<>>, notifications |-> <<>>]

\* new MinMaxReducer(camera), with source candidates of the given sizes.
MinMaxReducerConstructor(sizeA, sizeB) ==
    /\ sourceTexture = NoTexture
    /\ reductionSteps = <<>>
    /\ unbindObserver = FALSE
    /\ activated = FALSE
    /\ reductionObservers = 1
    /\ textures = [t \in TextureIds |->
                     IF t = "texA" THEN NewTexture(sizeA[1], sizeA[2])
                                   ELSE NewTexture(sizeB[1], sizeB[2])]
    /\ rendered = NothingRendered

\* new CSMShadowGenerator(mapSize, light, requested): the fields of the
\* light-binding operations.
BindConstructor(requested, lightKind) ==
    /\ light = lightKind
    /\ shadowsEnabled = TRUE
    /\ debug = FALSE
    /\ rendererDisposed = [id \in 1..CoerceNumCascades(requested) |-> 0]
    /\ defines = << >>
    /\ lightMatrices = NewLightMatrices(CoerceNumCascades(requested))
    /\ cascadeDepths = NewArray(CoerceNumCascades(requested))
    /\ samplers = NewArray(CoerceNumCascades(requested))
    /\ bindWrites = <<>>
    /\ rendererCalls = <<>>
    /\ readyResult = TRUE

\* new Uint8Array(length): zero-filled
NewUint8Array(length) == [k \in 0..(length - 1) |-> 0]

\* No image has been decoded and nothing has been uploaded.
NoImage == [width |-> 0, height |-> 0, data |-> NewUint8Array(0)]
NoUpload == [useWriteTexture |-> FALSE, bytesPerRow |-> 0, data |-> NewUint8Array(0)]

\* new CSMShadowGenerator(mapSize, light, requested) in a scene whose active
\* camera is `camera`, and new MinMaxReducer(camera).
Constructed(requested, camera, lightKind, sizeA, sizeB) ==
    /\ numCascades = CoerceNumCascades(requested)
    /\ activeCascade = CASCADE_ALL
    /\ renderList = <<>>
    /\ renderListId = FirstArray
    /\ lambda = Rat(7, 10)
    /\ minDistance = Zero
    /\ maxDistance = One
    /\ activeCamera = camera
    /\ boundingInfo = BoundingInfo(Vector3(0, 0, 0), Vector3(0, 0, 0))
    \* this.freezeShadowCastersBoundingInfo = false registers the frame hook
    /\ freeze = FALSE
    /\ freezeObservable = TRUE
    /\ sceneHooks = 1
    \* _initializeCSM ends with setDistanceSplit()
    /\ cascades = DistanceSplit(NewCascades(CoerceNumCascades(requested)),
                                Rat(7, 10), Zero, One, camera,
                                CoerceNumCascades(requested))
    /\ meshBounds = [m \in Meshes |-> PosBox]
    /\ frozen = NotFrozen
    /\ lastOp = Op("constructor")
    /\ BindConstructor(requested, lightKind)
    /\ MinMaxReducerConstructor(sizeA, sizeB)
    /\ img = NoImage
    /\ upload = NoUpload

\* The generator of a directional light, beside a reducer whose source
\* candidates are 4x4 and 2x2.
Constructor(requested, camera) ==
    Constructed(requested, camera, DirectionalLight, <<4, 4>>, <<2, 2>>)

Init == \E requested \in NumCascadesArgs, camera \in Cameras : Constructor(requested, camera)

\* Construction with 1 or 2 cascades, for binding the light.
InitBind == \E requested \in {1, 2} : Constructor(requested, Camera(1, 16))

\* Construction with 1 or 3 cascades.
InitCascades == \E requested \in {1, 3} : Constructor(requested, Camera(1, 16))

\* Construction for every requested numCascades and either kind of light, with
\* or without an active camera.
InitLife ==
    \E requested \in NumCascadesArgs, lightKind \in {DirectionalLight, PointLight},
       camera \in {NoCamera, Camera(1, 16)} :
        Constructed(requested, camera, lightKind, <<4, 4>>, <<2, 2>>)

\* Construction with two cascades.
InitFrames == Constructed(2, Camera(1, 16), DirectionalLight, <<4, 4>>, <<2, 2>>)

\* A reducer whose two source candidates have any of the sizes.
InitReducer ==
    \E sizeA \in SourceSizes, sizeB \in SourceSizes :
        Constructed(4, Camera(1, 16), DirectionalLight, sizeA, sizeB)

\* The largest width and height of the source textures of InitChain.
MaxSize == 9

\* A reducer whose first source candidate has any size up to MaxSize x MaxSize.
InitChain ==
    \E w \in 1..MaxSize, h \in 1..MaxSize :
        Constructed(4, Camera(1, 16), DirectionalLight, <<w, h>>, <<2, 2>>)

\* Construction, before any texture is created from an image.
InitUpload == Constructor(1, NoCamera)

\* Construction with the default numCascades (4).
InitDefault == Constructor(4, Camera(1, 16))

----------------------------------------------------------------------------
(* Operations                                                              *)

SetLambda(value) ==
    /\ lambda' = value
    /\ cascades' = DistanceSplit(cascades, value, minDistance, maxDistance,
                                 activeCamera, numCascades)
    /\ lastOp' = Op("lambda")
    /\ UNCHANGED <<renderListId, rendererVars, bindVars, reducerVars, helperVars>>
    /\ UNCHANGED <<numCascades, activeCascade, minDistance, maxDistance, activeCamera,
                   renderList, freeze, freezeObservable, sceneHooks, boundingInfo,
                   meshBounds, frozen>>

SetMinDistance(min) ==
    /\ minDistance' = min
    /\ lastOp' = Op("minDistance")
    /\ UNCHANGED <<renderListId, rendererVars, bindVars, reducerVars, helperVars>>
    /\ UNCHANGED <<numCascades, cascades, activeCascade, lambda, maxDistance,
                   activeCamera, renderList, freeze, freezeObservable, sceneHooks,
                   boundingInfo, meshBounds, frozen>>

SetMaxDistance(max) ==
    /\ maxDistance' = max
    /\ lastOp' = Op("maxDistance")
    /\ UNCHANGED <<renderListId, rendererVars, bindVars, reducerVars, helperVars>>
    /\ UNCHANGED <<numCascades, cascades, activeCascade, lambda, minDistance,
                   activeCamera, renderList, freeze, freezeObservable, sceneHooks,
                   boundingInfo, meshBounds, frozen>>

SetDistanceSplit ==
    /\ cascades' = DistanceSplit(cascades, lambda, minDistance, maxDistance,
                                 activeCamera, numCascades)
    /\ lastOp' = Op("setDistanceSplit")
    /\ UNCHANGED <<renderListId, rendererVars, bindVars, reducerVars, helperVars>>
    /\ UNCHANGED <<numCascades, activeCascade, lambda, minDistance, maxDistance,
                   activeCamera, renderList, freeze, freezeObservable, sceneHooks,
                   boundingInfo, meshBounds, frozen>>

\* The scene changes its active camera.
SetActiveCamera(camera) ==
    /\ camera # activeCamera
    /\ activeCamera' = camera
    /\ lastOp' = Op("activeCamera")
    /\ UNCHANGED <<renderListId, rendererVars, bindVars, reducerVars, helperVars>>
    /\ UNCHANGED <<numCascades, cascades, activeCascade, lambda, minDistance,
                   maxDistance, renderList, freeze, freezeObservable, sceneHooks,
                   boundingInfo, meshBounds, frozen>>

\* Faulty variants: no clamp; a clamp that lets index = numCascades through.
ClampCascade_Unclamped(index, n) == index
ClampCascade_OffByOne(index, n) ==
    IF index # CASCADE_ALL /\ (index < 0 \/ index > n) THEN 0 ELSE index
\* The activeCascade setter's clamp of an out-of-range index to 0.
ClampCascade(index, n) ==
    IF index # CASCADE_ALL /\ (index < 0 \/ index >= n) THEN 0 ELSE index

SetActiveCascade(index) ==
    /\ activeCascade' = ClampCascade(index, numCascades)
    /\ lastOp' = [Op("activeCascade") EXCEPT !.index = index]
    /\ UNCHANGED <<renderListId, rendererVars, bindVars, reducerVars, helperVars>>
    /\ UNCHANGED <<numCascades, cascades, lambda, minDistance, maxDistance,
                   activeCamera, renderList, freeze, freezeObservable, sceneHooks,
                   boundingInfo, meshBounds, frozen>>

Pushed_Copy(array) == array + 1

\* this._renderList.push(...): the array the field refers to afterwards
Pushed(array) == array

\* this._renderList.splice(index, 1): the array the field refers to afterwards
Spliced(array) == array

AddShadowCaster(mesh, includeDescendants) ==
    /\ Len(addShadowCaster(renderList, mesh, includeDescendants)) <= MaxCasters
    /\ renderList' = addShadowCaster(renderList, mesh, includeDescendants)
    /\ renderListId' = Pushed(renderListId)
    /\ lastOp' = [Op("addShadowCaster") EXCEPT
                     !.mesh = mesh, !.incl = includeDescendants, !.before = renderList]
    /\ UNCHANGED <<rendererVars, bindVars, reducerVars, helperVars>>
    /\ UNCHANGED <<numCascades, cascades, activeCascade, lambda, minDistance,
                   maxDistance, activeCamera, freeze, freezeObservable, sceneHooks,
                   boundingInfo, meshBounds, frozen>>

RemoveShadowCaster(mesh, includeDescendants) ==
    /\ renderList' = removeShadowCaster(renderList, mesh, includeDescendants)
    /\ lastOp' =
        \* does this call directly follow addShadowCaster(mesh, false)?
        LET undoes == /\ lastOp.op = "addShadowCaster"
                      /\ lastOp.mesh = mesh
                      /\ ~lastOp.incl
                      /\ ~includeDescendants
        IN  [Op("removeShadowCaster") EXCEPT
                !.undoes = undoes,
                !.before = IF undoes THEN lastOp.before ELSE <<>>]
    /\ renderListId' = Spliced(renderListId)
    /\ UNCHANGED <<rendererVars, bindVars, reducerVars, helperVars>>
    /\ UNCHANGED <<numCascades, cascades, activeCascade, lambda, minDistance,
                   maxDistance, activeCamera, freeze, freezeObservable, sceneHooks,
                   boundingInfo, meshBounds, frozen>>

\* The casters' world bounds: per axis the least minimumWorld and the greatest
\* maximumWorld over the (non-empty) list. The reference the claims compare with.
LeastOf(S) == CHOOSE v \in S : \A w \in S : RLe(v, w)
GreatestOf(S) == CHOOSE v \in S : \A w \in S : RLe(w, v)
CastersBounds(list, bounds) ==
    LET C == {list[i] : i \in 1..Len(list)}
    IN  BoundingInfo(
            [x |-> LeastOf({bounds[m].minimumWorld.x : m \in C}),
             y |-> LeastOf({bounds[m].minimumWorld.y : m \in C}),
             z |-> LeastOf({bounds[m].minimumWorld.z : m \in C})],
            [x |-> GreatestOf({bounds[m].maximumWorld.x : m \in C}),
             y |-> GreatestOf({bounds[m].maximumWorld.y : m \in C}),
             z |-> GreatestOf({bounds[m].maximumWorld.z : m \in C})])

\* Faulty variant: the hook is added without looking at the observer held.
SetFreeze_AlwaysAdds(value) ==
    LET removes == freezeObservable /\ value
        afterRemove == IF removes THEN FALSE ELSE freezeObservable
        adds == ~value
    IN  /\ freezeObservable' = (IF adds THEN TRUE ELSE afterRemove)
        /\ sceneHooks' = sceneHooks - (IF removes THEN 1 ELSE 0) + (IF adds THEN 1 ELSE 0)
        /\ freeze' = value
        /\ boundingInfo' = IF value
                           THEN computeShadowCastersBoundingInfo(renderList, meshBounds)
                           ELSE boundingInfo
        /\ frozen' = IF value
                     THEN [active |-> TRUE,
                           nonEmpty |-> renderList # <<>>,
                           info |-> boundingInfo',
                           casters |-> IF renderList # <<>>
                                       THEN CastersBounds(renderList, meshBounds)
                                       ELSE NotFrozen.casters]
                     ELSE frozen
        /\ lastOp' = Op(IF value THEN "freeze" ELSE "unfreeze")
        /\ UNCHANGED <<renderListId, rendererVars, bindVars, reducerVars, helperVars>>
        /\ UNCHANGED <<numCascades, cascades, activeCascade, lambda, minDistance,
                       maxDistance, activeCamera, renderList, meshBounds>>

\* set freezeShadowCastersBoundingInfo
SetFreeze(value) ==
    LET removes == freezeObservable /\ value
        afterRemove == IF removes THEN FALSE ELSE freezeObservable
        adds == ~afterRemove /\ ~value
    IN  /\ freezeObservable' = (IF adds THEN TRUE ELSE afterRemove)
        /\ sceneHooks' = sceneHooks - (IF removes THEN 1 ELSE 0) + (IF adds THEN 1 ELSE 0)
        /\ freeze' = value
        /\ boundingInfo' = IF value
                           THEN computeShadowCastersBoundingInfo(renderList, meshBounds)
                           ELSE boundingInfo
        /\ frozen' = IF value
                     THEN [active |-> TRUE,
                           nonEmpty |-> renderList # <<>>,
                           info |-> boundingInfo',
                           casters |-> IF renderList # <<>>
                                       THEN CastersBounds(renderList, meshBounds)
                                       ELSE NotFrozen.casters]
                     ELSE frozen
        /\ lastOp' = Op(IF value THEN "freeze" ELSE "unfreeze")
        /\ UNCHANGED <<renderListId, rendererVars, bindVars, reducerVars, helperVars>>
        /\ UNCHANGED <<numCascades, cascades, activeCascade, lambda, minDistance,
                       maxDistance, activeCamera, renderList, meshBounds>>

\* The scene notifies onBeforeRenderObservable: the registered hook recomputes.
BeforeRender ==
    /\ sceneHooks > 0
    /\ boundingInfo' = computeShadowCastersBoundingInfo(renderList, meshBounds)
    /\ frozen' = IF freeze THEN frozen ELSE NotFrozen
    /\ lastOp' = Op("beforeRender")
    /\ UNCHANGED <<renderListId, rendererVars, bindVars, reducerVars, helperVars>>
    /\ UNCHANGED <<numCascades, cascades, activeCascade, lambda, minDistance,
                   maxDistance, activeCamera, renderList, freeze, freezeObservable,
                   sceneHooks, meshBounds>>

\* A caster moves: its world bounding box changes.
MoveMesh(mesh, box) ==
    /\ meshBounds[mesh] # box
    /\ meshBounds' = [meshBounds EXCEPT ![mesh] = box]
    /\ lastOp' = Op("moveMesh")
    /\ UNCHANGED <<renderListId, rendererVars, bindVars, reducerVars, helperVars>>
    /\ UNCHANGED <<numCascades, cascades, activeCascade, lambda, minDistance,
                   maxDistance, activeCamera, renderList, freeze, freezeObservable,
                   sceneHooks, boundingInfo, frozen>>

\* set shadowCastersBoundingInfo
SetShadowCastersBoundingInfo(info) ==
    /\ boundingInfo' = info
    \* the caller replaced the value: what the freeze captured is no longer held
    /\ frozen' = NotFrozen
    /\ lastOp' = Op("shadowCastersBoundingInfo")
    /\ UNCHANGED <<renderListId, rendererVars, bindVars, reducerVars, helperVars>>
    /\ UNCHANGED <<numCascades, cascades, activeCascade, lambda, minDistance,
                   maxDistance, activeCamera, renderList, freeze, freezeObservable,
                   sceneHooks, meshBounds>>

\* A call of a cascade renderer's method.
Call(generator, method) == [id |-> generator.id, call |-> method]

\* The number of calls a list of calls makes to renderer `id`.
CallsTo(id, calls) == Cardinality({k \in DOMAIN calls : calls[k].id = id})

\* dispose(): the loop calling generator.dispose() on every cascade of the list
DisposeCalls(cascs) == [i \in 1..Len(cascs) |-> Call(cascs[i].generator, "dispose")]

ClearedCascades_Kept(cascs) == cascs

\* this._cascades = []
ClearedCascades(cascs) == <<>>

\* dispose()
Dispose ==
    /\ rendererCalls' = DisposeCalls(cascades)
    /\ rendererDisposed' = [id \in DOMAIN rendererDisposed |->
                              rendererDisposed[id] + CallsTo(id, DisposeCalls(cascades))]
    /\ cascades' = ClearedCascades(cascades)
    /\ numCascades' = 0
    /\ sceneHooks' = IF freezeObservable THEN sceneHooks - 1 ELSE sceneHooks
    /\ freezeObservable' = FALSE
    /\ lastOp' = Op("dispose")
    /\ UNCHANGED <<renderListId, bindVars, reducerVars, helperVars>>
    /\ UNCHANGED <<activeCascade, lambda, minDistance, maxDistance, activeCamera,
                   renderList, freeze, boundingInfo, meshBounds, frozen>>

----------------------------------------------------------------------------
(* Shader defines and light binding                                        *)

\* The light indexes the lighting pipeline passes.
LightIndices == {0, 1}

\* The name "<name><lightIndex><suffix>" of a define, uniform or sampler.
Key(name, lightIndex, suffix) == [name |-> name, light |-> lightIndex, suffix |-> suffix]

\* table[key] = value
With(table, key, value) ==
    [k \in (DOMAIN table) \cup {key} |-> IF k = key THEN value ELSE table[k]]

Has(table, key) == key \in DOMAIN table

DefinesBlocked_IgnoresLight ==
    ~shadowsEnabled \/ Len(cascades) < 1

\* !scene.shadowsEnabled || !light.shadowEnabled || this._cascades.length < 1
DefinesBlocked ==
    ~shadowsEnabled \/ ~light.shadowEnabled \/ Len(cascades) < 1

\* this._cascades[0].generator.prepareDefines(defines, lightIndex): the renderer
\* of a cascade writes the defines of a single shadow map.
GeneratorPrepareDefines(generator, table, lightIndex) ==
    With(table, Key("SHADOW", lightIndex, ""), TRUE)

CSMDefines_StaleCount(table, lightIndex, nCasc, dbg) ==
    With(With(With(table,
        Key("SHADOWCSM", lightIndex, ""), TRUE),
        Key("SHADOWCSM", lightIndex, "_NUMCASCADES"), nCasc + 1),
        Key("SHADOWCSM", lightIndex, "_DEBUG"), dbg)

\* defines["SHADOWCSM" + lightIndex] = true, ..._NUMCASCADES, ..._DEBUG
CSMDefines(table, lightIndex, nCasc, dbg) ==
    With(With(With(table,
        Key("SHADOWCSM", lightIndex, ""), TRUE),
        Key("SHADOWCSM", lightIndex, "_NUMCASCADES"), nCasc),
        Key("SHADOWCSM", lightIndex, "_DEBUG"), dbg)

\* prepareDefines(defines, lightIndex)
PrepareDefines(lightIndex) ==
    /\ IF DefinesBlocked
       THEN /\ defines' = defines
            /\ rendererCalls' = <<>>
       ELSE /\ defines' = CSMDefines(
                    GeneratorPrepareDefines(cascades[1].generator, defines, lightIndex),
                    lightIndex, numCascades, debug)
            /\ rendererCalls' = <<Call(cascades[1].generator, "prepareDefines")>>
    /\ lastOp' = [Op("prepareDefines") EXCEPT !.index = lightIndex]
    /\ UNCHANGED <<light, shadowsEnabled, debug, lightMatrices, cascadeDepths,
                   samplers, bindWrites, readyResult, rendererDisposed, renderListId, reducerVars, helperVars>>
    /\ UNCHANGED <<numCascades, cascades, activeCascade, lambda, minDistance,
                   maxDistance, activeCamera, renderList, freeze, freezeObservable,
                   sceneHooks, boundingInfo, meshBounds, frozen>>

\* scene.shadowsEnabled = value
SetShadowsEnabled(value) ==
    /\ shadowsEnabled # value
    /\ shadowsEnabled' = value
    /\ lastOp' = Op("shadowsEnabled")
    /\ UNCHANGED <<light, debug, defines, lightMatrices, cascadeDepths, samplers,
                   bindWrites, readyResult, rendererVars, renderListId, reducerVars, helperVars>>
    /\ UNCHANGED <<numCascades, cascades, activeCascade, lambda, minDistance,
                   maxDistance, activeCamera, renderList, freeze, freezeObservable,
                   sceneHooks, boundingInfo, meshBounds, frozen>>

\* light.shadowEnabled = value
SetLightShadowEnabled(value) ==
    /\ light.shadowEnabled # value
    /\ light' = [light EXCEPT !.shadowEnabled = value]
    /\ lastOp' = Op("lightShadowEnabled")
    /\ UNCHANGED <<shadowsEnabled, debug, defines, lightMatrices, cascadeDepths,
                   samplers, bindWrites, readyResult, rendererVars, renderListId, reducerVars, helperVars>>
    /\ UNCHANGED <<numCascades, cascades, activeCascade, lambda, minDistance,
                   maxDistance, activeCamera, renderList, freeze, freezeObservable,
                   sceneHooks, boundingInfo, meshBounds, frozen>>

\* set debug
SetDebug(dbg) ==
    /\ debug' = dbg
    /\ lastOp' = Op("debug")
    /\ UNCHANGED <<light, shadowsEnabled, defines, lightMatrices, cascadeDepths,
                   samplers, bindWrites, readyResult, rendererVars, renderListId, reducerVars, helperVars>>
    /\ UNCHANGED <<numCascades, cascades, activeCascade, lambda, minDistance,
                   maxDistance, activeCamera, renderList, freeze, freezeObservable,
                   sceneHooks, boundingInfo, meshBounds, frozen>>

\* "_" + cascadeIndex
CascadeSuffix(cascadeIndex) == <<"_0", "_1", "_2", "_3">>[cascadeIndex + 1]

\* A write to the effect or to the light's uniform buffer.
Write(target, call, key, value) == [target |-> target, call |-> call, key |-> key, value |-> value]

NullMap == [kind |-> "null", id |-> 0]

\* generator.getShadowMap() / getShadowMapForRendering(): the map, or null
ShadowMapOf(generator) ==
    IF generator.shadowMap THEN [kind |-> "map", id |-> generator.id] ELSE NullMap

\* Element k of generator.getTransformMatrix().
Element(generator, k) == [gen |-> generator.id, frame |-> generator.frame, k |-> k]

copyToArray_NoOffset(generator, array, offset) ==
    [k \in DOMAIN array |-> IF k < 16 THEN Element(generator, k) ELSE array[k]]

\* matrix.copyToArray(array, offset)
copyToArray(generator, array, offset) ==
    [k \in DOMAIN array |->
        IF k >= offset /\ k < offset + 16 THEN Element(generator, k - offset) ELSE array[k]]

\* camera.minZ + cascade.splitDistance * cameraRange
CascadeDepth(cascade, camera) ==
    RAdd(camera.minZ, RMul(cascade.splitDistance, RSub(camera.maxZ, camera.minZ)))

BindBlocked_IgnoresMap ==
    \/ DefinesBlocked
    \/ ~activeCamera.present

\* The early returns of bindShadowLight.
BindBlocked ==
    \/ DefinesBlocked
    \/ ~activeCamera.present
    \/ ~cascades[1].generator.shadowMap

\* The state the loop over the cascades works on.
BindState == [lightMatrices |-> lightMatrices, samplers |-> samplers,
              cascadeDepths |-> cascadeDepths, writes |-> <<>>, calls |-> <<>>]

\* One pass of the loop, for the cascade at cascadeIndex (0-based).
BindCascade(st, cascadeIndex, lightIndex) ==
    LET cascade == cascades[cascadeIndex + 1]
        pcf == cascades[1].generator.filter = FILTER_PCF
    IN  [lightMatrices |-> copyToArray(cascade.generator, st.lightMatrices, cascadeIndex * 16),
         samplers |-> IF pcf THEN st.samplers
                      ELSE [st.samplers EXCEPT ![cascadeIndex] = ShadowMapOf(cascade.generator)],
         cascadeDepths |-> [st.cascadeDepths EXCEPT
                                ![cascadeIndex] = CascadeDepth(cascade, activeCamera)],
         writes |-> IF pcf
                    THEN Append(st.writes,
                            Write("effect", "setDepthStencilTexture",
                                  Key("shadowSampler", lightIndex,
                                      CascadeSuffix(cascadeIndex)),
                                  ShadowMapOf(cascade.generator)))
                    ELSE st.writes,
         calls |-> st.calls \o <<Call(cascade.generator, "getTransformMatrix"),
                                 Call(cascade.generator, "getShadowMapForRendering")>>]

RECURSIVE BindLoop(_, _, _)
BindLoop(st, cascadeIndex, lightIndex) ==
    IF cascadeIndex < Len(cascades)
    THEN BindLoop(BindCascade(st, cascadeIndex, lightIndex), cascadeIndex + 1, lightIndex)
    ELSE st

ShadowsInfo_NeverPCSS(filter) ==
    IF filter = FILTER_PCF
    THEN <<"darkness", "width", "1/width", "frustumEdgeFalloff">>
    ELSE <<"darkness", "blurScale/width", "depthScale", "frustumEdgeFalloff">>

\* The arguments of updateFloat4("shadowsInfo", ...), by the names of the
\* values of the master renderer they are computed from.
ShadowsInfo(filter) ==
    IF filter = FILTER_PCF
    THEN <<"darkness", "width", "1/width", "frustumEdgeFalloff">>
    ELSE IF filter = FILTER_PCSS
    THEN <<"darkness", "1/width", "contactHardeningLightSizeUVRatio*width", "frustumEdgeFalloff">>
    ELSE <<"darkness", "blurScale/width", "depthScale", "frustumEdgeFalloff">>

\* The writes after the loop, on the state the loop left.
BindUniforms(st, lightIndex) ==
    LET master == cascades[1].generator
    IN  (IF ~light.needCube
         THEN <<Write("effect", "setMatrices", Key("lightMatrix", lightIndex, ""),
                      st.lightMatrices)>>
         ELSE <<>>)
        \o <<Write("effect", "setInt", Key("numCascades", lightIndex, ""), Len(cascades))>>
        \o (IF master.filter # FILTER_PCF
            THEN <<Write("effect", "setTextureArray", Key("shadowSampler", lightIndex, ""),
                         st.samplers)>>
            ELSE <<>>)
        \o <<Write("effect", "setArray", Key("cascadeSplits", lightIndex, ""),
                   st.cascadeDepths),
             Write("uniformBuffer", "updateFloat4", Key("shadowsInfo", lightIndex, ""),
                   ShadowsInfo(master.filter)),
             Write("uniformBuffer", "updateFloat2", Key("depthValues", lightIndex, ""),
                   <<"depthMinZ", "depthMinZ+depthMaxZ">>)>>

\* bindShadowLight(lightIndex, effect)
BindShadowLight(lightIndex) ==
    /\ IF BindBlocked
       THEN /\ bindWrites' = <<>>
            /\ rendererCalls' =
                    IF DefinesBlocked \/ ~activeCamera.present THEN <<>>
                    ELSE <<Call(cascades[1].generator, "getShadowMap")>>
            /\ UNCHANGED <<lightMatrices, samplers, cascadeDepths>>
       ELSE LET st == BindLoop(BindState, 0, lightIndex)
            IN  /\ lightMatrices' = st.lightMatrices
                /\ samplers' = st.samplers
                /\ cascadeDepths' = st.cascadeDepths
                /\ bindWrites' = st.writes \o BindUniforms(st, lightIndex)
                /\ rendererCalls' = <<Call(cascades[1].generator, "getShadowMap")>> \o st.calls
    /\ lastOp' = [Op("bindShadowLight") EXCEPT !.index = lightIndex]
    /\ UNCHANGED <<light, shadowsEnabled, debug, defines, readyResult,
                   rendererDisposed, renderListId, reducerVars, helperVars>>
    /\ UNCHANGED <<numCascades, cascades, activeCascade, lambda, minDistance,
                   maxDistance, activeCamera, renderList, freeze, freezeObservable,
                   sceneHooks, boundingInfo, meshBounds, frozen>>

\* The renderer of the cascade at index (1-based) allocates or releases its map.
GeneratorSetShadowMap(index, allocated) ==
    /\ index \in DOMAIN cascades
    /\ cascades[index].generator.shadowMap # allocated
    /\ cascades' = [cascades EXCEPT ![index].generator.shadowMap = allocated]
    /\ lastOp' = Op("generator.shadowMap")
    /\ UNCHANGED <<renderListId, rendererVars, bindVars, reducerVars, helperVars>>
    /\ UNCHANGED <<numCascades, activeCascade, lambda, minDistance, maxDistance,
                   activeCamera, renderList, freeze, freezeObservable, sceneHooks,
                   boundingInfo, meshBounds, frozen>>

\* The matrices a renderer computes change from one frame to the next.
Frames == 2

\* Every cascade renders its map for a frame and recomputes its matrices.
RenderFrame ==
    /\ Len(cascades) > 0
    /\ cascades' = [i \in DOMAIN cascades |->
                      [cascades[i] EXCEPT !.generator.frame = (@ + 1) % Frames]]
    /\ lastOp' = Op("render")
    /\ UNCHANGED <<renderListId, rendererVars, bindVars, reducerVars, helperVars>>
    /\ UNCHANGED <<numCascades, activeCascade, lambda, minDistance, maxDistance,
                   activeCamera, renderList, freeze, freezeObservable, sceneHooks,
                   boundingInfo, meshBounds, frozen>>

----------------------------------------------------------------------------
(* Per-cascade properties                                                  *)

\* The values of the per-cascade settings the generator forwards: bias stands
\* for the numeric ones, useKernelBlur for the boolean ones; filter is numeric.
BiasValues == {0, 1, 2}
PropertyValues(property) ==
    IF property = "bias" THEN BiasValues
    ELSE IF property = "filter" THEN Filters
    ELSE BOOLEAN

getActiveCascades_NotForced(forceAll) ==
    IF activeCascade = CASCADE_ALL
    THEN [i \in 1..Len(cascades) |-> i]
    ELSE IF activeCascade >= 0 /\ activeCascade < Len(cascades)
    THEN <<activeCascade + 1>>
    ELSE <<>>

\* _getActiveCascades(forceAll = true): the positions (1-based) in the
\* cascade list of the cascades it returns.
getActiveCascades(forceAll) ==
    IF activeCascade = CASCADE_ALL \/ forceAll
    THEN [i \in 1..Len(cascades) |-> i]
    ELSE IF activeCascade >= 0 /\ activeCascade < Len(cascades)
    THEN <<activeCascade + 1>>
    ELSE <<>>

\* set bias, set filter, set useKernelBlur, ...:
\* this._getActiveCascades().forEach((cascade) => cascade.generator.<property> = value)
SetProperty(property, value) ==
    /\ cascades' = [i \in DOMAIN cascades |->
                      IF \E k \in DOMAIN getActiveCascades(TRUE) : getActiveCascades(TRUE)[k] = i
                      THEN [cascades[i] EXCEPT !.generator[property] = value]
                      ELSE cascades[i]]
    /\ lastOp' = [Op("set") EXCEPT !.property = property, !.value = value]
    /\ UNCHANGED <<renderListId, rendererVars, bindVars, reducerVars, helperVars>>
    /\ UNCHANGED <<numCascades, activeCascade, lambda, minDistance, maxDistance,
                   activeCamera, renderList, freeze, freezeObservable, sceneHooks,
                   boundingInfo, meshBounds, frozen>>

\* this._activeCascade >= 0 && this._activeCascade < this._cascades.length
ActiveInList == activeCascade >= 0 /\ activeCascade < Len(cascades)

\* null
Null == [kind |-> "null", id |-> 0]

\* generator.viewMatrix
ViewMatrixOf(generator) == [kind |-> "viewMatrix", id |-> generator.id, frame |-> generator.frame]

GetNumber_ZeroSentinel(property) ==
    IF ActiveInList THEN cascades[activeCascade + 1].generator[property] ELSE 0

\* get bias, get filter, ...: the numeric per-cascade getters
GetNumber(property) ==
    IF ActiveInList THEN cascades[activeCascade + 1].generator[property] ELSE -1

\* get useKernelBlur, ...: the boolean per-cascade getters
GetBoolean(property) ==
    IF ActiveInList THEN cascades[activeCascade + 1].generator[property] ELSE FALSE

\* get viewMatrix
GetViewMatrix ==
    IF ActiveInList THEN ViewMatrixOf(cascades[activeCascade + 1].generator) ELSE Null

\* get cascade, reduced to the renderer of the cascade it returns
GetCascade ==
    IF ActiveInList THEN [kind |-> "cascade", id |-> cascades[activeCascade + 1].generator.id]
    ELSE Null

\* generator.cascade.generator.<property> = value: a write to the renderer of
\* the active cascade alone, through the cascade getter.
SetCascadeProperty(property, value) ==
    /\ ActiveInList
    /\ cascades[activeCascade + 1].generator[property] # value
    /\ cascades' = [cascades EXCEPT ![activeCascade + 1].generator[property] = value]
    /\ lastOp' = Op("cascade.set")
    /\ UNCHANGED <<renderListId, rendererVars, bindVars, reducerVars, helperVars>>
    /\ UNCHANGED <<numCascades, activeCascade, lambda, minDistance, maxDistance,
                   activeCamera, renderList, freeze, freezeObservable, sceneHooks,
                   boundingInfo, meshBounds, frozen>>

----------------------------------------------------------------------------
(* Readiness and shadow maps                                               *)

RECURSIVE IsReadyLoop_NoShortCircuit(_, _, _)
IsReadyLoop_NoShortCircuit(cascadeIndex, ready, calls) ==
    IF cascadeIndex < Len(cascades)
    THEN IsReadyLoop_NoShortCircuit(cascadeIndex + 1,
            ready /\ cascades[cascadeIndex + 1].generator.ready,
            Append(calls, Call(cascades[cascadeIndex + 1].generator, "isReady")))
    ELSE [ready |-> ready, calls |-> calls]

\* for (cascadeIndex = 0; cascadeIndex < length && ready; ++cascadeIndex)
\*     ready = ready && generator.isReady(...)
RECURSIVE IsReadyLoop(_, _, _)
IsReadyLoop(cascadeIndex, ready, calls) ==
    IF cascadeIndex < Len(cascades) /\ ready
    THEN IsReadyLoop(cascadeIndex + 1,
            ready /\ cascades[cascadeIndex + 1].generator.ready,
            Append(calls, Call(cascades[cascadeIndex + 1].generator, "isReady")))
    ELSE [ready |-> ready, calls |-> calls]

\* isReady(subMesh, useInstances)
IsReady ==
    /\ readyResult' = IsReadyLoop(0, TRUE, <<>>).ready
    /\ rendererCalls' = IsReadyLoop(0, TRUE, <<>>).calls
    /\ lastOp' = Op("isReady")
    /\ UNCHANGED <<light, shadowsEnabled, debug, defines, lightMatrices, cascadeDepths,
                   samplers, bindWrites, rendererDisposed, renderListId, reducerVars, helperVars>>
    /\ UNCHANGED <<numCascades, cascades, activeCascade, lambda, minDistance,
                   maxDistance, activeCamera, renderList, freeze, freezeObservable,
                   sceneHooks, boundingInfo, meshBounds, frozen>>

\* The renderer of the cascade at index (1-based) becomes ready or not ready.
GeneratorSetReady(index, value) ==
    /\ index \in DOMAIN cascades
    /\ cascades[index].generator.ready # value
    /\ cascades' = [cascades EXCEPT ![index].generator.ready = value]
    /\ lastOp' = Op("generator.ready")
    /\ UNCHANGED <<renderListId, rendererVars, bindVars, reducerVars, helperVars>>
    /\ UNCHANGED <<numCascades, activeCascade, lambda, minDistance, maxDistance,
                   activeCamera, renderList, freeze, freezeObservable, sceneHooks,
                   boundingInfo, meshBounds, frozen>>

RECURSIVE ShadowMapsLoop_KeepsNull(_, _)
ShadowMapsLoop_KeepsNull(cascadeIndex, rttList) ==
    IF cascadeIndex < Len(cascades)
    THEN ShadowMapsLoop_KeepsNull(cascadeIndex + 1,
            Append(rttList, ShadowMapOf(cascades[cascadeIndex + 1].generator)))
    ELSE rttList

\* The loop of getShadowMaps: rtt = generator.getShadowMap(); if (rtt) push
RECURSIVE ShadowMapsLoop(_, _)
ShadowMapsLoop(cascadeIndex, rttList) ==
    IF cascadeIndex < Len(cascades)
    THEN ShadowMapsLoop(cascadeIndex + 1,
            IF ShadowMapOf(cascades[cascadeIndex + 1].generator) # NullMap
            THEN Append(rttList, ShadowMapOf(cascades[cascadeIndex + 1].generator))
            ELSE rttList)
    ELSE rttList

\* getShadowMaps()
getShadowMaps == ShadowMapsLoop(0, <<>>)

----------------------------------------------------------------------------
(* MinMaxReducer                                                           *)

\* Everything of the generator that the reducer's operations leave alone.
generatorVars == <<numCascades, cascades, activeCascade, lambda, minDistance,
                   maxDistance, activeCamera, renderList, freeze, freezeObservable,
                   sceneHooks, boundingInfo, meshBounds, frozen, renderListId, rendererVars,
                   bindVars>>

\* The reducer's fields and its source candidates, as one value.
Reducer == [sourceTexture |-> sourceTexture, reductionSteps |-> reductionSteps,
            unbindObserver |-> unbindObserver, activated |-> activated,
            textures |-> textures, reductionObservers |-> reductionObservers]

RefreshRates == {0, 1, 2}

\* Math.max(Math.round(w / 2), 1), for an integer w >= 1
HalfSize_Floor(w) == IF w \div 2 > 1 THEN w \div 2 ELSE 1

\* Math.max(Math.round(w / 2), 1), for an integer w >= 1
HalfSize(w) == IF (w + 1) \div 2 > 1 THEN (w + 1) \div 2 ELSE 1

\* (w == 1 && h == 1) ? 'LAST' : (w == 1 || h == 1) ? 'ONEBEFORELAST' : 'MAIN'
StepDefine(w, h) ==
    IF w = 1 /\ h = 1 THEN "LAST"
    ELSE IF w = 1 \/ h = 1 THEN "ONEBEFORELAST"
    ELSE "MAIN"

\* A post process of the chain; readback tells whether its onAfterRender
\* observable holds the function that reads the pixels and notifies.
Step(w, h, define, readback) ==
    [width |-> w, height |-> h, define |-> define, readback |-> readback]

\* while (w > 1 || h > 1) { ... }
RECURSIVE ReductionLoop(_, _, _)
ReductionLoop(w, h, steps) ==
    IF w > 1 \/ h > 1
    THEN ReductionLoop(HalfSize(w), HalfSize(h),
            Append(steps, Step(HalfSize(w), HalfSize(h),
                               StepDefine(HalfSize(w), HalfSize(h)),
                               HalfSize(w) = 1 /\ HalfSize(h) = 1)))
    ELSE steps

\* The chain setSourceTexture builds for a w x h source.
ReductionSteps(w, h) == ReductionLoop(w, h, <<Step(w, h, "INITIAL", FALSE)>>)

Deactivated_Skipped(r) == r

\* deactivate()
Deactivated(r) ==
    IF ~r.unbindObserver \/ r.sourceTexture = NoTexture
    THEN r
    ELSE [r EXCEPT !.textures[r.sourceTexture].observers = @ - 1,
                   !.unbindObserver = FALSE,
                   !.activated = FALSE]

\* activate()
Activated(r) ==
    IF r.unbindObserver \/ r.sourceTexture = NoTexture
    THEN r
    ELSE [r EXCEPT !.textures[r.sourceTexture].observers = @ + 1,
                   !.unbindObserver = TRUE,
                   !.activated = TRUE]

\* dispose(disposeAll)
Disposed(r, disposeAll) ==
    [Deactivated([r EXCEPT !.reductionObservers = IF disposeAll THEN 0 ELSE @])
        EXCEPT !.reductionSteps = <<>>, !.sourceTexture = NoTexture]

\* setSourceTexture(sourceTexture, ...)
SourceSet(r, texture) ==
    IF texture = r.sourceTexture
    THEN r
    ELSE [Disposed(r, FALSE) EXCEPT
            !.sourceTexture = texture,
            !.reductionSteps = ReductionSteps(r.textures[texture].width,
                                              r.textures[texture].height)]

RefreshRateSet_FirstTexture(r, value) ==
    [r EXCEPT !.textures["texA"].refreshRate = value]

\* set refreshRate
RefreshRateSet(r, value) ==
    IF r.sourceTexture # NoTexture
    THEN [r EXCEPT !.textures[r.sourceTexture].refreshRate = value]
    ELSE r

\* get refreshRate
GetRefreshRate ==
    IF sourceTexture # NoTexture THEN textures[sourceTexture].refreshRate ELSE -1

\* The reducer's fields become those of r.
Becomes(r) ==
    /\ sourceTexture' = r.sourceTexture
    /\ reductionSteps' = r.reductionSteps
    /\ unbindObserver' = r.unbindObserver
    /\ activated' = r.activated
    /\ textures' = r.textures
    /\ reductionObservers' = r.reductionObservers

SetSourceTexture(texture) ==
    /\ Becomes(SourceSet(Reducer, texture))
    /\ lastOp' = [Op("setSourceTexture") EXCEPT !.property = texture, !.value = activated]
    /\ UNCHANGED <<rendered, generatorVars, helperVars>>

Activate ==
    /\ Becomes(Activated(Reducer))
    /\ lastOp' = Op("activate")
    /\ UNCHANGED <<rendered, generatorVars, helperVars>>

Deactivate ==
    /\ Becomes(Deactivated(Reducer))
    /\ lastOp' = Op("deactivate")
    /\ UNCHANGED <<rendered, generatorVars, helperVars>>

ReducerDispose(disposeAll) ==
    /\ Becomes(Disposed(Reducer, disposeAll))
    /\ lastOp' = Op("reducer.dispose")
    /\ UNCHANGED <<rendered, generatorVars, helperVars>>

SetRefreshRate(value) ==
    /\ Becomes(RefreshRateSet(Reducer, value))
    /\ lastOp' = [Op("refreshRate") EXCEPT !.value = value]
    /\ UNCHANGED <<rendered, generatorVars, helperVars>>

\* texture.refreshRate = value, assigned by the texture's owner
TextureSetRefreshRate(texture, value) ==
    /\ textures[texture].refreshRate # value
    /\ textures' = [textures EXCEPT ![texture].refreshRate = value]
    /\ lastOp' = Op("texture.refreshRate")
    /\ UNCHANGED <<sourceTexture, reductionSteps, unbindObserver, activated,
                   reductionObservers, rendered, generatorVars, helperVars>>

\* postProcessManager.directRender(steps, ...): the steps are rendered in chain
\* order; after a step its onAfterRender observers run, and the readback
\* function notifies onAfterReductionPerformed with the pixel it read from the
\* step's input.
DirectRender(steps) ==
    [steps |-> [i \in 1..Len(steps) |-> i],
     notifications |-> SelectSeq([i \in 1..Len(steps) |->
                                    [step |-> i, width |-> steps[i].width,
                                     height |-> steps[i].height,
                                     readback |-> steps[i].readback]],
                                 LAMBDA n : n.readback)]

\* The scene finishes a render of the texture: its onAfterUnbindObservable
\* notifies, and the observer activate() added runs the chain.
RenderSource(texture) ==
    /\ rendered' = IF textures[texture].observers > 0
                   THEN [texture |-> texture] @@ DirectRender(reductionSteps)
                   ELSE [NothingRendered EXCEPT !.texture = texture]
    /\ lastOp' = Op("renderSource")
    /\ UNCHANGED <<sourceTexture, reductionSteps, unbindObserver, activated, textures,
                   reductionObservers, generatorVars, helperVars>>

----------------------------------------------------------------------------
(* createTextureFromImage (WebGPUShadow/helpers.ts)                        *)

\* The row alignment of a buffer-to-texture copy.
RowAlignment == 256

\* Widths and heights of the decoded images, and the seeds of their bytes.
ImageWidths == {1, 2, 63, 64, 65}
MaxHeight == 3
Seeds == 0..7

\* const useWriteTexture = false
useWriteTexture == FALSE

\* imageCanvasContext.getImageData(0, 0, width, height): 4 bytes per pixel,
\* row after row.
ImageData(width, height, seed) ==
    [width |-> width, height |-> height,
     data |-> [k \in 0..(4 * width * height - 1) |-> (seed + 7 * k) % 256]]

\* Math.ceil(a / b) for integers a >= 0, b > 0
Ceil(a, b) == (a + b - 1) \div b

bytesPerRow_Unpadded(width) == width * 4

\* Math.ceil(img.width * 4 / 256) * 256
bytesPerRow(width) == Ceil(width * 4, RowAlignment) * RowAlignment

\* for (let x = 0; x < img.width; ++x) { ... }: st holds the variables of
\* the loops, data, imagePixelIndex, x and y.
RECURSIVE CopyRow(_, _, _, _)
CopyRow(st, imageData, width, rowBytes) ==
    IF st.x < width
    THEN CopyRow([data |-> [st.data EXCEPT
                    ![st.x * 4 + st.y * rowBytes] = imageData[st.imagePixelIndex],
                    ![st.x * 4 + st.y * rowBytes + 1] = imageData[st.imagePixelIndex + 1],
                    ![st.x * 4 + st.y * rowBytes + 2] = imageData[st.imagePixelIndex + 2],
                    ![st.x * 4 + st.y * rowBytes + 3] = imageData[st.imagePixelIndex + 3]],
                  imagePixelIndex |-> st.imagePixelIndex + 4,
                  x |-> st.x + 1, y |-> st.y],
                 imageData, width, rowBytes)
    ELSE st

\* for (let y = 0; y < img.height; ++y) { ... }
RECURSIVE CopyRows(_, _, _, _, _)
CopyRows(st, imageData, width, height, rowBytes) ==
    IF st.y < height
    THEN CopyRows([CopyRow([st EXCEPT !.x = 0], imageData, width, rowBytes)
                      EXCEPT !.y = @ + 1],
                  imageData, width, height, rowBytes)
    ELSE st

\* The data of the buffer-copy path.
UploadData(image, rowBytes) ==
    IF rowBytes = image.width * 4
    THEN image.data
    ELSE CopyRows([data |-> NewUint8Array(rowBytes * image.height),
                   imagePixelIndex |-> 0, x |-> 0, y |-> 0],
                  image.data, image.width, image.height, rowBytes).data

\* createTextureFromImage(device, src, usage) for an image
\* that decodes to width x height
CreateTextureFromImage(width, height, seed) ==
    /\ img' = ImageData(width, height, seed)
    /\ upload' = IF useWriteTexture
                 THEN [useWriteTexture |-> TRUE, bytesPerRow |-> width * 4,
                       data |-> img'.data]
                 ELSE [useWriteTexture |-> FALSE, bytesPerRow |-> bytesPerRow(width),
                       data |-> UploadData(img', bytesPerRow(width))]
    /\ lastOp' = Op("createTextureFromImage")
    /\ UNCHANGED <<generatorVars, reducerVars>>

----------------------------------------------------------------------------
(* Specifications. The operations fall into groups that write disjoint     *)
(* parts of the state (dispose belongs to all of them), so each group is   *)
(* explored on its own; Spec interleaves them all.                         *)

\* Arguments given to the activeCascade setter.
ActiveCascadeArgs == {-2, CASCADE_ALL, 0, 1, 2, 3, 4, 5}

NextSplit ==
    \/ \E value \in Lambdas : SetLambda(value)
    \/ \E min \in Distances : SetMinDistance(min)
    \/ \E max \in Distances : SetMaxDistance(max)
    \/ SetDistanceSplit
    \/ \E camera \in Cameras : SetActiveCamera(camera)
    \/ Dispose

NextActive ==
    \/ \E index \in ActiveCascadeArgs : SetActiveCascade(index)
    \/ Dispose

NextCasters ==
    \/ \E mesh \in Meshes, incl \in BOOLEAN : AddShadowCaster(mesh, incl)
    \/ \E mesh \in Meshes, incl \in BOOLEAN : RemoveShadowCaster(mesh, incl)
    \/ Dispose

NextBounds ==
    \/ \E mesh \in Meshes, incl \in BOOLEAN : AddShadowCaster(mesh, incl)
    \/ \E mesh \in Meshes, incl \in BOOLEAN : RemoveShadowCaster(mesh, incl)
    \/ \E mesh \in Meshes, box \in Boxes : MoveMesh(mesh, box)
    \/ \E value \in BOOLEAN : SetFreeze(value)
    \/ BeforeRender
    \/ \E info \in AssignedInfos : SetShadowCastersBoundingInfo(info)
    \/ Dispose

\* Cameras the scene offers while the light is bound.
BindCameras == {NoCamera, Camera(1, 16)}

NextDefines ==
    \/ \E lightIndex \in LightIndices : PrepareDefines(lightIndex)
    \/ \E value \in BOOLEAN : SetShadowsEnabled(value)
    \/ \E value \in BOOLEAN : SetLightShadowEnabled(value)
    \/ \E dbg \in BOOLEAN : SetDebug(dbg)
    \/ Dispose

\* The pipeline prepares the defines of light 0 and binds it under either index.
NextBind ==
    \/ PrepareDefines(0)
    \/ \E lightIndex \in LightIndices : BindShadowLight(lightIndex)
    \/ \E value \in BOOLEAN : SetShadowsEnabled(value)
    \/ \E value \in BOOLEAN : SetLightShadowEnabled(value)
    \/ \E camera \in BindCameras : SetActiveCamera(camera)
    \/ \E value \in Filters : SetProperty("filter", value)
    \/ \E index \in 1..4, allocated \in BOOLEAN : GeneratorSetShadowMap(index, allocated)
    \/ Dispose

NextReady ==
    \/ IsReady
    \/ \E index \in 1..4, value \in BOOLEAN : GeneratorSetReady(index, value)
    \/ \E index \in 1..4, allocated \in BOOLEAN : GeneratorSetShadowMap(index, allocated)
    \/ \E value \in BOOLEAN : SetFreeze(value)
    \/ Dispose

\* Indexes given to the activeCascade setter beside the per-cascade settings.
PropsCascadeArgs == {CASCADE_ALL, 0, 1, 2, 5}

NextProps ==
    \/ \E index \in PropsCascadeArgs : SetActiveCascade(index)
    \/ \E property \in {"bias", "useKernelBlur"} :
          \E value \in PropertyValues(property) : SetProperty(property, value)
    \/ \E property \in {"bias", "useKernelBlur"} :
          \E value \in PropertyValues(property) : SetCascadeProperty(property, value)
    \/ RenderFrame
    \/ Dispose

\* The light is bound frame after frame while the renderers recompute their
\* matrices and the splits move.
NextFrames ==
    \/ \E lightIndex \in LightIndices : BindShadowLight(lightIndex)
    \/ RenderFrame
    \/ \E value \in {Zero, One} : SetLambda(value)
    \/ \E value \in {FILTER_NONE, FILTER_PCF} : SetProperty("filter", value)
    \/ \E allocated \in BOOLEAN : GeneratorSetShadowMap(1, allocated)

NextLife ==
    \/ \E value \in BOOLEAN : SetFreeze(value)
    \/ BeforeRender
    \/ \E value \in Lambdas : SetLambda(value)
    \/ SetDistanceSplit
    \/ \E camera \in BindCameras : SetActiveCamera(camera)
    \/ Dispose

NextReducer ==
    \/ \E texture \in TextureIds : SetSourceTexture(texture)
    \/ Activate
    \/ Deactivate
    \/ \E disposeAll \in BOOLEAN : ReducerDispose(disposeAll)
    \/ \E value \in RefreshRates : SetRefreshRate(value)
    \/ \E texture \in TextureIds, value \in RefreshRates : TextureSetRefreshRate(texture, value)
    \/ \E texture \in TextureIds : RenderSource(texture)

\* Chains are built, run and disposed of.
NextChain ==
    \/ \E texture \in TextureIds : SetSourceTexture(texture)
    \/ Activate
    \/ \E disposeAll \in BOOLEAN : ReducerDispose(disposeAll)
    \/ \E texture \in TextureIds : RenderSource(texture)

\* Textures are created from images.
NextUpload ==
    \E width \in ImageWidths, height \in 1..MaxHeight, seed \in Seeds :
        CreateTextureFromImage(width, height, seed)

Next ==
    \/ NextSplit \/ NextActive \/ NextCasters \/ NextBounds
    \/ NextDefines \/ NextBind \/ NextReady \/ NextProps \/ NextReducer
    \/ NextLife \/ NextFrames \/ NextChain \/ NextUpload

SpecSplit == Init /\ [][NextSplit]_vars
SpecActive == Init /\ [][NextActive]_vars
SpecCasters == Init /\ [][NextCasters]_vars
SpecBounds == InitDefault /\ [][NextBounds]_vars
SpecDefines == InitCascades /\ [][NextDefines]_vars
SpecBind == InitBind /\ [][NextBind]_vars
SpecReady == InitCascades /\ [][NextReady]_vars
SpecProps == InitCascades /\ [][NextProps]_vars
SpecReducer == InitReducer /\ [][NextReducer]_vars
SpecLife == InitLife /\ [][NextLife]_vars
SpecFrames == InitFrames /\ [][NextFrames]_vars
SpecChain == InitChain /\ [][NextChain]_vars
SpecUpload == InitUpload /\ [][NextUpload]_vars
Spec == Init /\ [][Next]_vars

----------------------------------------------------------------------------
(* Properties                                                              *)

\* The state is the one a run of setDistanceSplit just left.
AfterDistanceSplit == lastOp.op \in {"constructor", "lambda", "setDistanceSplit"}

SplitAt(i) == cascades[i].splitDistance

\* C1: with an active camera with 0 < near < far, lambda in [0,1],
\* 0 <= minDistance <= maxDistance <= 1 and numCascades >= 1, after setDistanceSplit
\* the split distances are non-decreasing in the cascade index, each lies in
\* [minDistance, maxDistance], and cascade 0's prevSplitDistance is minDistance.
C1_ValidInputs ==
    /\ activeCamera.present
    /\ RLt(Zero, activeCamera.minZ) /\ RLt(activeCamera.minZ, activeCamera.maxZ)
    /\ RLe(Zero, lambda) /\ RLe(lambda, One)
    /\ RLe(Zero, minDistance) /\ RLe(minDistance, maxDistance) /\ RLe(maxDistance, One)
    /\ numCascades >= 1

C1_SplitsOrderedAndBounded ==
    (AfterDistanceSplit /\ C1_ValidInputs) =>
        /\ Len(cascades) = numCascades
        /\ cascades[1].prevSplitDistance = minDistance
        /\ \A i \in 1..Len(cascades) :
            /\ RLe(minDistance, SplitAt(i))
            /\ RLe(SplitAt(i), maxDistance)
            /\ i > 1 => RLe(SplitAt(i - 1), SplitAt(i))

\* near = 1, far = 16, lambda = 0.7, two cascades over the whole range:
\* log = 4, uniform = 8.5, d = 5.35, split 0 = 4.35 / 15 = 0.29; split 1 = 1.
C1_Witness ==
    /\ lastOp.op = "setDistanceSplit"
    /\ C1_ValidInputs
    /\ activeCamera = Camera(1, 16)
    /\ lambda = Rat(7, 10) /\ minDistance = Zero /\ maxDistance = One
    /\ numCascades = 2
    /\ SplitAt(1) = Rat(29, 100)
    /\ SplitAt(2) = One

\* C2: in every state, for every cascade index i > 0, cascade i's prevSplitDistance
\* equals cascade i-1's splitDistance.
C2_PrevIsPredecessorSplit ==
    \A i \in 2..Len(cascades) : cascades[i].prevSplitDistance = SplitAt(i - 1)

\* Splits recomputed after lambda, the distances and the camera all changed.
C2_Witness ==
    /\ lastOp.op = "setDistanceSplit"
    /\ Len(cascades) = 4
    /\ lambda = One /\ minDistance = Rat(1, 5) /\ activeCamera = Camera(1, 101)
    /\ cascades[2].prevSplitDistance = SplitAt(1)
    /\ cascades[4].prevSplitDistance = SplitAt(3)
    /\ RLt(SplitAt(1), SplitAt(3))

\* The splits setDistanceSplit derives from the current lambda, minDistance,
\* maxDistance and camera, written out from the formulas of the specification.
ExpectedSplit(i) ==
    LET near == activeCamera.minZ
        cameraRange == RSub(activeCamera.maxZ, near)
        minZ == RAdd(near, RMul(minDistance, cameraRange))
        maxZ == RAdd(near, RMul(maxDistance, cameraRange))
        log == RMul(minZ, Pow(RDiv(maxZ, minZ), i, numCascades))
        uniform == RAdd(minZ, RMul(RSub(maxZ, minZ), Rat(i, numCascades)))
    IN  RDiv(RSub(RAdd(RMul(lambda, RSub(log, uniform)), uniform), near), cameraRange)

\* C3 (as claimed): with an active camera, right after an assignment to lambda,
\* minDistance or maxDistance the stored splits are those of the current values,
\* and cascade 0's prevSplitDistance is the current minDistance.
C3_SplitsFollowAssignment ==
    (lastOp.op \in {"lambda", "minDistance", "maxDistance"} /\ activeCamera.present) =>
        \A i \in 1..Len(cascades) :
            /\ SplitAt(i) = ExpectedSplit(i)
            /\ cascades[i].prevSplitDistance =
                  (IF i = 1 THEN minDistance ELSE ExpectedSplit(i - 1))

\* C4: with lambda = 0, setDistanceSplit gives cascade i the fraction
\* minDistance + (maxDistance - minDistance) * (i+1) / numCascades; with near = 1,
\* far = 101, the whole range and four cascades, cascade 2 has depth 76 and
\* fraction 3/4.
C4_UniformAtLambdaZero ==
    (AfterDistanceSplit /\ activeCamera.present /\ lambda = Zero) =>
        /\ \A i \in 1..Len(cascades) :
              SplitAt(i) = RAdd(minDistance,
                                RMul(RSub(maxDistance, minDistance), Rat(i, numCascades)))
        /\ (/\ activeCamera = Camera(1, 101)
            /\ minDistance = Zero /\ maxDistance = One
            /\ Len(cascades) = 4)
           => /\ SplitAt(3) = Rat(3, 4)
              /\ RAdd(activeCamera.minZ,
                      RMul(SplitAt(3), RSub(activeCamera.maxZ, activeCamera.minZ)))
                 = Rat(76, 1)

C4_Witness ==
    /\ lastOp.op = "lambda"
    /\ lambda = Zero
    /\ activeCamera = Camera(1, 101)
    /\ minDistance = Zero /\ maxDistance = One
    /\ Len(cascades) = 4 /\ numCascades = 4
    /\ SplitAt(3) = Rat(3, 4)

\* C5 (as claimed): in every state, dispose included, activeCascade is CASCADE_ALL
\* or 0 <= activeCascade < numCascades.
C5_ActiveCascadeInRange ==
    activeCascade = CASCADE_ALL \/ (0 <= activeCascade /\ activeCascade < numCascades)

\* C5 (amended): in every state before dispose (numCascades is zero only once
\* disposed), activeCascade is CASCADE_ALL or 0 <= activeCascade < numCascades.
C5_ActiveCascadeInRangeBeforeDispose ==
    numCascades >= 1 => C5_ActiveCascadeInRange

C5_Witness ==
    /\ lastOp.op = "activeCascade"
    /\ lastOp.index = 3
    /\ numCascades = 4
    /\ activeCascade = 3

\* C6: assigning activeCascade a value other than CASCADE_ALL that is negative or
\* >= numCascades stores 0: the next read of activeCascade returns 0.
C6_OutOfRangeReadsZero ==
    (/\ lastOp.op = "activeCascade"
     /\ lastOp.index # CASCADE_ALL
     /\ (lastOp.index < 0 \/ lastOp.index >= numCascades))
    => activeCascade = 0

\* Index 4 assigned to a generator of four cascades (the first index out of range).
C6_Witness ==
    /\ lastOp.op = "activeCascade"
    /\ lastOp.index = 4
    /\ numCascades = 4
    /\ activeCascade = 0

\* The number of entries of list that are mesh.
CountOf(list, mesh) == Cardinality({i \in 1..Len(list) : list[i] = mesh})
SameContents(a, b) == \A mesh \in Meshes : CountOf(a, mesh) = CountOf(b, mesh)

\* C7: addShadowCaster(mesh, false) directly followed by removeShadowCaster(mesh,
\* false) leaves the caster list with the contents (as a multiset) it had before
\* the two calls.
C7_AddThenRemoveRestores ==
    (lastOp.op = "removeShadowCaster" /\ lastOp.undoes) =>
        SameContents(renderList, lastOp.before)

\* The mesh was in the list already: the earlier entry went, so the order changed.
C7_Witness ==
    /\ lastOp.op = "removeShadowCaster" /\ lastOp.undoes
    /\ lastOp.before = <<"m2", "m1">>
    /\ renderList = <<"m1", "m2">>

\* C8 (as claimed): after dispose(), mustRender is false and numCascades is 0.
C8_DisposedMustNotRender ==
    lastOp.op = "dispose" => (~mustRender /\ numCascades = 0)

\* C9 (as claimed): from an assignment of true to freezeShadowCastersBoundingInfo
\* until the flag is false and a frame hook has run, shadowCastersBoundingInfo is
\* the value of that assignment, and that value is the casters' bounds then.
C9_FrozenHoldsCastersBounds ==
    frozen.active =>
        /\ boundingInfo = frozen.info
        /\ frozen.nonEmpty => boundingInfo = frozen.casters

\* C10 (as claimed): after _computeShadowCastersBoundingInfo ran over a non-empty
\* caster list, shadowCastersBoundingInfo is the casters' bounds.
C10_ComputedIsCastersBounds ==
    (lastOp.op \in {"freeze", "beforeRender"} /\ renderList # <<>>) =>
        boundingInfo = CastersBounds(renderList, meshBounds)


\* C11: bindShadowLight writes nothing (no write to the effect or to the
\* light's uniform buffer, lightMatrices, cascadeDepths and samplers as they
\* were) when the scene's shadows are disabled, the light's shadows are
\* disabled, there is no cascade, there is no active camera, or cascade 0 has
\* no shadow map; prepareDefines leaves the defines as they were under the
\* first three conditions.
C11_BlockedCallsWriteNothing ==
    [][/\ (/\ lastOp'.op = "bindShadowLight"
           /\ \/ ~shadowsEnabled
              \/ ~light.shadowEnabled
              \/ Len(cascades) = 0
              \/ ~activeCamera.present
              \/ ~cascades[1].generator.shadowMap)
          => (/\ bindWrites' = <<>>
              /\ lightMatrices' = lightMatrices
              /\ cascadeDepths' = cascadeDepths
              /\ samplers' = samplers
              /\ defines' = defines)
       /\ (/\ lastOp'.op = "prepareDefines"
           /\ \/ ~shadowsEnabled
              \/ ~light.shadowEnabled
              \/ Len(cascades) = 0)
          => (/\ defines' = defines
              /\ bindWrites' = bindWrites
              /\ lightMatrices' = lightMatrices
              /\ cascadeDepths' = cascadeDepths)]_vars

\* bindShadowLight returned at the missing map of cascade 0, after an earlier
\* call had bound the light and the defines had been prepared.
C11_Witness ==
    /\ lastOp.op = "bindShadowLight"
    /\ shadowsEnabled /\ light.shadowEnabled /\ activeCamera.present
    /\ Len(cascades) = 2
    /\ ~cascades[1].generator.shadowMap
    /\ bindWrites = <<>>
    /\ lightMatrices[16] = Element(cascades[2].generator, 0)
    /\ cascadeDepths[1] = CascadeDepth(cascades[2], activeCamera)
    /\ Has(defines, Key("SHADOWCSM", 0, ""))

\* C12: with the scene's and the light's shadows enabled and at least one
\* cascade, prepareDefines(defines, L) calls prepareDefines of cascade 0's
\* renderer and leaves SHADOWCSM<L> = true, SHADOWCSM<L>_NUMCASCADES =
\* numCascades and SHADOWCSM<L>_DEBUG = debug.
C12_DefinesAfterPrepare ==
    (/\ lastOp.op = "prepareDefines"
     /\ shadowsEnabled /\ light.shadowEnabled /\ Len(cascades) >= 1)
    => /\ rendererCalls = <<[id |-> cascades[1].generator.id, call |-> "prepareDefines"]>>
       /\ Has(defines, Key("SHADOWCSM", lastOp.index, ""))
       /\ Has(defines, Key("SHADOWCSM", lastOp.index, "_NUMCASCADES"))
       /\ Has(defines, Key("SHADOWCSM", lastOp.index, "_DEBUG"))
       /\ defines[Key("SHADOWCSM", lastOp.index, "")] = TRUE
       /\ defines[Key("SHADOWCSM", lastOp.index, "_NUMCASCADES")] = numCascades
       /\ defines[Key("SHADOWCSM", lastOp.index, "_DEBUG")] = debug

\* numCascades = 3 and L = 0 give SHADOWCSM0_NUMCASCADES = 3.
C12_Witness ==
    /\ lastOp.op = "prepareDefines"
    /\ lastOp.index = 0
    /\ numCascades = 3
    /\ debug
    /\ Has(defines, Key("SHADOWCSM", 0, "_NUMCASCADES"))
    /\ defines[Key("SHADOWCSM", 0, "_NUMCASCADES")] = 3
    /\ defines[Key("SHADOWCSM", 0, "_DEBUG")] = TRUE

\* The position (1-based) of the first cascade whose renderer is not ready, or
\* the length of the list when all are ready.
FirstNotReady ==
    IF \E i \in DOMAIN cascades : ~cascades[i].generator.ready
    THEN CHOOSE i \in DOMAIN cascades :
            /\ ~cascades[i].generator.ready
            /\ \A j \in 1..(i - 1) : cascades[j].generator.ready
    ELSE Len(cascades)

\* C13: isReady returns true exactly when every cascade renderer is ready; it
\* queries the renderers in increasing cascade order from cascade 0 and queries
\* none after the first that is not ready; with no cascade it returns true.
C13_ReadyIffAllReady ==
    lastOp.op = "isReady"
    => /\ readyResult = (\A i \in DOMAIN cascades : cascades[i].generator.ready)
       /\ rendererCalls = [i \in 1..FirstNotReady |->
                              [id |-> cascades[i].generator.id, call |-> "isReady"]]
       /\ (Len(cascades) = 0 => readyResult /\ rendererCalls = <<>>)

\* isReady stopped at cascade 1 of three, whose renderer is not ready.
C13_Witness ==
    /\ lastOp.op = "isReady"
    /\ Len(cascades) = 3
    /\ cascades[1].generator.ready
    /\ ~cascades[2].generator.ready
    /\ cascades[3].generator.ready
    /\ ~readyResult
    /\ Len(rendererCalls) = 2

\* C14: dispose() disposes every cascade renderer exactly once, empties the
\* cascade list, sets numCascades to 0 and removes the per-frame hook if it
\* is registered; a dispose() that follows a dispose() disposes no renderer
\* and changes nothing.
C14_DisposeOnce ==
    [][lastOp'.op = "dispose"
       => /\ \A id \in DOMAIN rendererDisposed' : rendererDisposed'[id] = 1
          /\ \A id \in DOMAIN rendererDisposed :
                CallsTo(id, rendererCalls') = (IF rendererDisposed[id] = 0 THEN 1 ELSE 0)
          /\ cascades' = <<>>
          /\ numCascades' = 0
          /\ ~freezeObservable'
          /\ sceneHooks' = 0
          /\ (lastOp.op = "dispose"
               => /\ rendererCalls' = <<>>
                  /\ UNCHANGED <<numCascades, cascades, activeCascade, lambda,
                                 minDistance, maxDistance, activeCamera, renderList,
                                 freeze, freezeObservable, sceneHooks, boundingInfo,
                                 rendererDisposed, bindVars>>)]_vars

\* A second dispose() of a generator of three cascades whose hook was registered.
C14_Witness ==
    /\ lastOp.op = "dispose"
    /\ rendererCalls = <<>>
    /\ DOMAIN rendererDisposed = 1..3
    /\ \A id \in 1..3 : rendererDisposed[id] = 1
    /\ ~freeze
    /\ sceneHooks = 0

\* C15: a per-cascade getter returns the value of cascade i's renderer when
\* activeCascade is the valid index i; it returns the sentinel (-1 for
\* numbers, false for booleans, null for viewMatrix and cascade) when
\* activeCascade is CASCADE_ALL or outside the list, in particular when the
\* list is empty.
C15_GettersReadActiveCascade ==
    /\ (activeCascade \in 0..(Len(cascades) - 1)
        => /\ GetNumber("bias") = cascades[activeCascade + 1].generator.bias
           /\ GetNumber("filter") = cascades[activeCascade + 1].generator.filter
           /\ GetBoolean("useKernelBlur") = cascades[activeCascade + 1].generator.useKernelBlur
           /\ GetViewMatrix = [kind |-> "viewMatrix", id |-> activeCascade + 1,
                               frame |-> cascades[activeCascade + 1].generator.frame]
           /\ GetCascade = [kind |-> "cascade", id |-> activeCascade + 1])
    /\ ((activeCascade = CASCADE_ALL \/ Len(cascades) = 0)
        => /\ GetNumber("bias") = -1
           /\ GetNumber("filter") = -1
           /\ GetBoolean("useKernelBlur") = FALSE
           /\ GetViewMatrix = Null
           /\ GetCascade = Null)

\* Cascade 1 is active and its renderer holds values the others do not.
C15_Witness ==
    /\ Len(cascades) = 3
    /\ activeCascade = 1
    /\ cascades[1].generator.bias = 0
    /\ cascades[2].generator.bias = 2
    /\ cascades[3].generator.bias = 1
    /\ cascades[2].generator.useKernelBlur
    /\ ~cascades[1].generator.useKernelBlur
    /\ GetNumber("bias") = 2
    /\ GetBoolean("useKernelBlur")

\* C16: an assignment to a per-cascade property leaves the value in the
\* renderer of every cascade, whatever activeCascade is.
C16_SettersWriteEveryCascade ==
    lastOp.op = "set"
    => \A i \in DOMAIN cascades : cascades[i].generator[lastOp.property] = lastOp.value

\* bias was assigned while cascade 0 of three was the active one.
C16_Witness ==
    /\ lastOp.op = "set"
    /\ lastOp.property = "bias"
    /\ lastOp.value = 2
    /\ activeCascade = 0
    /\ Len(cascades) = 3
    /\ cascades[3].generator.bias = 2
    /\ cascades[2].generator.useKernelBlur
    /\ ~cascades[3].generator.useKernelBlur

\* C17: getShadowMaps returns, in increasing cascade order, exactly the maps
\* of the cascades whose renderer has an allocated map.
C17_ShadowMapsOfAllocated ==
    /\ \A k \in DOMAIN getShadowMaps : getShadowMaps[k].kind = "map"
    /\ \A k \in DOMAIN getShadowMaps :
            \A l \in DOMAIN getShadowMaps : k < l => getShadowMaps[k].id < getShadowMaps[l].id
    /\ {getShadowMaps[k].id : k \in DOMAIN getShadowMaps}
            = {i \in DOMAIN cascades : cascades[i].generator.shadowMap}

\* Of three cascades, the middle one has no map.
C17_Witness ==
    /\ Len(cascades) = 3
    /\ cascades[1].generator.shadowMap
    /\ ~cascades[2].generator.shadowMap
    /\ cascades[3].generator.shadowMap
    /\ getShadowMaps = <<[kind |-> "map", id |-> 1], [kind |-> "map", id |-> 3]>>

\* C18: while the reducer is activated, a completed render of the source
\* texture runs the reduction steps in chain order and is followed by exactly
\* one onAfterReductionPerformed notification, read back from the final 1x1
\* step, for every source size w, h >= 1 (1x1 included); while it is not
\* activated no notification is fired.
C18_RenderNotifiesOnce ==
    lastOp.op = "renderSource"
    => IF activated /\ rendered.texture = sourceTexture
       THEN /\ rendered.steps = [i \in 1..Len(reductionSteps) |-> i]
            /\ Len(rendered.notifications) = 1
            /\ rendered.notifications[1].step = Len(reductionSteps)
            /\ rendered.notifications[1].width = 1
            /\ rendered.notifications[1].height = 1
       ELSE rendered.notifications = <<>>

\* C19: after setSourceTexture with a texture other than the current source
\* the reducer is not activated, whatever its status before: activated is
\* false and it has no observer on the old or the new source; a render of a
\* texture while the reducer is not activated runs no reduction.
C19_NewSourceIsNotActivated ==
    [][/\ (lastOp'.op = "setSourceTexture" /\ sourceTexture' # sourceTexture)
          => /\ ~activated'
             /\ ~unbindObserver'
             /\ \A t \in TextureIds : textures'[t].observers = 0
       /\ (lastOp'.op = "renderSource" /\ ~activated)
          => /\ rendered'.steps = <<>>
             /\ rendered'.notifications = <<>>]_vars

\* The source was changed from texA to texB while the reducer was activated
\* and had run on texA.
C19_Witness ==
    /\ lastOp.op = "setSourceTexture"
    /\ lastOp.value = TRUE
    /\ sourceTexture = "texB"
    /\ rendered.texture = "texA"
    /\ rendered.steps # <<>>
    /\ ~activated
    /\ textures["texA"].observers = 0

\* C20: refreshRate reads the refreshRate of the current source texture and
\* an assignment writes it to that texture alone; with no source texture it
\* reads -1 and an assignment changes no state.
C20_RefreshRateOfSource ==
    [][/\ GetRefreshRate = (IF sourceTexture \in TextureIds
                            THEN textures[sourceTexture].refreshRate ELSE -1)
       /\ lastOp'.op = "refreshRate"
          => IF sourceTexture \in TextureIds
             THEN /\ textures'[sourceTexture].refreshRate = lastOp'.value
                  /\ GetRefreshRate' = lastOp'.value
                  /\ \A t \in TextureIds \ {sourceTexture} : textures'[t] = textures[t]
                  /\ UNCHANGED <<sourceTexture, reductionSteps, activated, unbindObserver>>
             ELSE /\ GetRefreshRate' = -1
                  /\ UNCHANGED reducerVars]_vars

\* 2 was assigned while texB, not texA, was the source.
C20_Witness ==
    /\ lastOp.op = "refreshRate"
    /\ lastOp.value = 2
    /\ sourceTexture = "texB"
    /\ textures["texB"].refreshRate = 2
    /\ textures["texA"].refreshRate = 0
    /\ GetRefreshRate = 2

\* C21: for every requested numCascades (a value below 1 counts as 1) and
\* either kind of light, construction leaves a cascade list of exactly
\* numCascades >= 1 entries; in every later state the length of the cascade
\* list equals numCascades, and both are 0 after dispose.
C21_ListLengthIsNumCascades ==
    /\ Len(cascades) = numCascades
    /\ lastOp.op = "constructor"
       => /\ numCascades >= 1
          /\ \A i \in 1..numCascades : cascades[i].generator.id = i
    /\ lastOp.op = "dispose" => numCascades = 0

\* The generator of a point light, built with four cascades and used since.
C21_Witness ==
    /\ ~light.directional
    /\ lastOp.op = "setDistanceSplit"
    /\ numCascades = 4
    /\ Len(cascades) = 4
    /\ cascades[4].splitDistance = One

\* C22: from construction until dispose, after any sequence of assignments to
\* freezeShadowCastersBoundingInfo, exactly one per-frame hook of the
\* generator is registered when the flag is false and none when it is true;
\* never more than one.
C22_OneHookWhileUnfrozen ==
    /\ numCascades > 0 => sceneHooks = (IF freeze THEN 0 ELSE 1)
    /\ sceneHooks <= 1

\* The flag was set and cleared again, and the bounds the freeze captured are
\* still held: one hook is registered.
C22_Witness ==
    /\ lastOp.op = "unfreeze"
    /\ frozen.active
    /\ numCascades > 0
    /\ ~freeze
    /\ sceneHooks = 1

\* C23: in every state after dispose(), whatever is called afterwards, no
\* per-frame hook of the generator is registered (numCascades is 0 exactly in
\* the states after dispose).
C23_NoHookAfterDispose ==
    numCascades = 0 => sceneHooks = 0

\* C26: setDistanceSplit, called directly, through the lambda setter or at
\* construction, changes no cascade's prevSplitDistance or splitDistance when
\* there is no active camera.
C26_NoCameraNoSplit ==
    [][/\ (lastOp.op = "constructor" /\ ~activeCamera.present)
          => \A i \in DOMAIN cascades :
                /\ cascades[i].prevSplitDistance = Zero
                /\ cascades[i].splitDistance = Zero
       /\ (lastOp'.op \in {"lambda", "setDistanceSplit"} /\ ~activeCamera.present)
          => cascades' = cascades]_vars

\* The camera went away after the splits were computed, then lambda was set.
C26_Witness ==
    /\ lastOp.op = "lambda"
    /\ lambda = Zero
    /\ ~activeCamera.present
    /\ Len(cascades) = 2
    /\ cascades[2].splitDistance = One
    /\ cascades[1].splitDistance # Rat(1, 2)

\* C27: in every reachable state before dispose, the renderList of every
\* cascade renderer is the very array the generator's renderList is (not a
\* copy), so after any addShadowCaster / removeShadowCaster calls every
\* renderer reads the generator's current casters.
C27_RenderListShared ==
    numCascades > 0
    => \A i \in DOMAIN cascades : cascades[i].generator.renderList = renderListId

\* Casters were added and one removed again.
C27_Witness ==
    /\ lastOp.op = "removeShadowCaster"
    /\ renderList = <<"m2", "m3">>
    /\ Len(cascades) = 4
    /\ cascades[4].generator.renderList = renderListId

\* bindShadowLight was just called and none of its early returns was taken.
AfterBind ==
    /\ lastOp.op = "bindShadowLight"
    /\ shadowsEnabled /\ light.shadowEnabled
    /\ Len(cascades) >= 1
    /\ activeCamera.present
    /\ cascades[1].generator.shadowMap

\* The writes of the last bindShadowLight made by the given call.
WritesBy(call) == SelectSeq(bindWrites, LAMBDA w : w.call = call)

\* C24: when the prerequisites of bindShadowLight hold, after the call, for
\* every cascade i, lightMatrices[16*i .. 16*i+15] holds cascade i's transform
\* matrix and cascadeDepths[i] = camera.minZ + splitDistance(i) * (camera.maxZ
\* - camera.minZ); the cascades are processed in increasing index order and
\* numCascades<L> is set to the number of cascades.
C24_BoundMatricesAndDepths ==
    AfterBind
    => /\ \A i \in 0..(Len(cascades) - 1) :
            /\ \A k \in 0..15 :
                  lightMatrices[16 * i + k] =
                    [gen |-> cascades[i + 1].generator.id,
                     frame |-> cascades[i + 1].generator.frame, k |-> k]
            /\ RSub(cascadeDepths[i], activeCamera.minZ)
                  = RMul(cascades[i + 1].splitDistance,
                         RSub(activeCamera.maxZ, activeCamera.minZ))
       /\ SelectSeq(rendererCalls, LAMBDA c : c.call = "getTransformMatrix")
            = [i \in 1..Len(cascades) |->
                    [id |-> cascades[i].generator.id, call |-> "getTransformMatrix"]]
       /\ Len(WritesBy("setInt")) = 1
       /\ WritesBy("setInt")[1].key = [name |-> "numCascades", light |-> lastOp.index,
                                        suffix |-> ""]
       /\ WritesBy("setInt")[1].value = Len(cascades)

\* The light was bound again after the renderers had recomputed their
\* matrices: the second cascade's matrix of the new frame is in place and its
\* depth is the camera's maxZ.
C24_Witness ==
    /\ AfterBind
    /\ Len(cascades) = 2
    /\ cascades[2].generator.frame = 1
    /\ lightMatrices[31] = [gen |-> 2, frame |-> 1, k |-> 15]
    /\ cascadeDepths[1] = Rat(16, 1)
    /\ lambda = Zero
    /\ cascadeDepths[0] = Rat(17, 2)

\* C25: in one bindShadowLight call whose prerequisites hold: if cascade 0's
\* filter is PCF, each cascade i's map is bound with setDepthStencilTexture
\* under shadowSampler<L>_<i> and setTextureArray is not called; otherwise
\* setTextureArray(shadowSampler<L>) is called once with one entry per cascade
\* in index order and setDepthStencilTexture is not called; in both cases one
\* shadowsInfo write is made, with the layout cascade 0's filter selects.
C25_SamplersByFilter ==
    AfterBind
    => /\ IF cascades[1].generator.filter = FILTER_PCF
          THEN /\ WritesBy("setTextureArray") = <<>>
               /\ Len(WritesBy("setDepthStencilTexture")) = Len(cascades)
               /\ \A i \in 1..Len(cascades) :
                    /\ WritesBy("setDepthStencilTexture")[i].key =
                          [name |-> "shadowSampler", light |-> lastOp.index,
                           suffix |-> <<"_0", "_1", "_2", "_3">>[i]]
                    /\ WritesBy("setDepthStencilTexture")[i].value =
                          (IF cascades[i].generator.shadowMap
                           THEN [kind |-> "map", id |-> cascades[i].generator.id]
                           ELSE [kind |-> "null", id |-> 0])
          ELSE /\ WritesBy("setDepthStencilTexture") = <<>>
               /\ Len(WritesBy("setTextureArray")) = 1
               /\ WritesBy("setTextureArray")[1].key =
                     [name |-> "shadowSampler", light |-> lastOp.index, suffix |-> ""]
               /\ DOMAIN WritesBy("setTextureArray")[1].value = 0..(Len(cascades) - 1)
               /\ \A i \in 1..Len(cascades) :
                    WritesBy("setTextureArray")[1].value[i - 1] =
                          (IF cascades[i].generator.shadowMap
                           THEN [kind |-> "map", id |-> cascades[i].generator.id]
                           ELSE [kind |-> "null", id |-> 0])
       /\ Len(WritesBy("updateFloat4")) = 1
       /\ WritesBy("updateFloat4")[1].key.name = "shadowsInfo"
       /\ WritesBy("updateFloat4")[1].value =
             (CASE cascades[1].generator.filter = FILTER_PCF
                     -> <<"darkness", "width", "1/width", "frustumEdgeFalloff">>
                [] cascades[1].generator.filter = FILTER_PCSS
                     -> <<"darkness", "1/width", "contactHardeningLightSizeUVRatio*width",
                          "frustumEdgeFalloff">>
                [] OTHER
                     -> <<"darkness", "blurScale/width", "depthScale",
                          "frustumEdgeFalloff">>)

\* Two cascades were bound under light 1 with the PCSS filter, after a call
\* that had bound them with PCF; the second cascade has no map.
C25_Witness ==
    /\ AfterBind
    /\ lastOp.index = 1
    /\ Len(cascades) = 2
    /\ cascades[1].generator.filter = FILTER_PCSS
    /\ ~cascades[2].generator.shadowMap
    /\ Len(WritesBy("setTextureArray")) = 1
    /\ samplers[1] = [kind |-> "null", id |-> 0]

\* ceil(log2 n) for 1 <= n <= 2^16: the least k with 2^k >= n.
CeilLog2(n) == CHOOSE k \in 0..16 : 2^k >= n /\ \A j \in 0..(k - 1) : 2^j < n

\* The greater of two integers.
Greater(a, b) == IF a >= b THEN a ELSE b

\* C28: for every source size w, h >= 1 the chain setSourceTexture builds is
\* finite; each additional step has size (max(round(w/2),1), max(round(h/2),1))
\* of the previous step's size w x h; when w > 1 or h > 1 the last step is
\* 1x1; the chain has 1 + max(ceil(log2 w), ceil(log2 h)) steps.
C28_ChainHalvesToOnePixel ==
    sourceTexture # NoTexture
    => /\ Len(reductionSteps)
            = 1 + Greater(CeilLog2(textures[sourceTexture].width),
                          CeilLog2(textures[sourceTexture].height))
       /\ reductionSteps[1].width = textures[sourceTexture].width
       /\ reductionSteps[1].height = textures[sourceTexture].height
       /\ \A i \in 2..Len(reductionSteps) :
            /\ reductionSteps[i].width
                  = Greater((reductionSteps[i - 1].width + 1) \div 2, 1)
            /\ reductionSteps[i].height
                  = Greater((reductionSteps[i - 1].height + 1) \div 2, 1)
       /\ (textures[sourceTexture].width > 1 \/ textures[sourceTexture].height > 1)
            => /\ reductionSteps[Len(reductionSteps)].width = 1
               /\ reductionSteps[Len(reductionSteps)].height = 1

\* The chain of a 5x3 source: 5x3, 3x2, 2x1, 1x1.
C28_Witness ==
    /\ lastOp.op = "setSourceTexture"
    /\ sourceTexture = "texA"
    /\ textures["texA"].width = 5 /\ textures["texA"].height = 3
    /\ Len(reductionSteps) = 4
    /\ reductionSteps[2].width = 3 /\ reductionSteps[2].height = 2
    /\ reductionSteps[3].width = 2 /\ reductionSteps[3].height = 1
    /\ reductionSteps[4].width = 1 /\ reductionSteps[4].height = 1

\* C29: for every source size w, h >= 1 the chain setSourceTexture builds
\* has exactly one step tagged LAST, which is the last step of the chain and
\* is 1x1, and the step immediately before it is tagged ONEBEFORELAST.
C29_LastAndOneBeforeLast ==
    sourceTexture # NoTexture
    => /\ Cardinality({i \in DOMAIN reductionSteps :
                            reductionSteps[i].define = "LAST"}) = 1
       /\ reductionSteps[Len(reductionSteps)].define = "LAST"
       /\ reductionSteps[Len(reductionSteps)].width = 1
       /\ reductionSteps[Len(reductionSteps)].height = 1
       /\ Len(reductionSteps) >= 2
       /\ reductionSteps[Len(reductionSteps) - 1].define = "ONEBEFORELAST"

\* C30: in the buffer-copy path of createTextureFromImage, bytesPerRow is the
\* smallest multiple of 256 that is >= 4*width; for every pixel (x, y) and
\* channel c in 0..3, data[y*bytesPerRow + 4*x + c] = imageData[4*(y*width + x)
\* + c]; when 4*width is a multiple of 256 the image data is used unchanged.
C30_RowsPaddedTo256 ==
    (lastOp.op = "createTextureFromImage" /\ ~upload.useWriteTexture)
    => /\ upload.bytesPerRow % 256 = 0
       /\ upload.bytesPerRow >= 4 * img.width
       /\ upload.bytesPerRow - 256 < 4 * img.width
       /\ \A y \in 0..(img.height - 1), x \in 0..(img.width - 1), c \in 0..3 :
            upload.data[y * upload.bytesPerRow + 4 * x + c]
                = img.data[4 * (y * img.width + x) + c]
       /\ (4 * img.width) % 256 = 0 => upload.data = img.data

\* A 65 x 2 image was copied into rows of 512 bytes: the last channel of its
\* last pixel is at 512 + 4*64 + 3.
C30_Witness ==
    /\ lastOp.op = "createTextureFromImage"
    /\ ~upload.useWriteTexture
    /\ img.width = 65 /\ img.height = 2
    /\ upload.bytesPerRow = 512
    /\ DOMAIN upload.data = 0..1023
    /\ img.data[519] = 49
    /\ upload.data[771] = 49
    /\ upload.data[260] = 0

====
